---- MODULE Spec2Model ----
(***************************************************************************)
(* BusControl: the simulation runtime.                                     *)
(*                                                                         *)
(*   Part I   GameLoopService   (fixed-step scheduler)        SpecLoop     *)
(*   Part II  EntityManagerService store and the simulation systems        *)
(*            (bus movement, bus logic, NPC spawner, NPC interaction),     *)
(*            map editor and map save/load                    Spec         *)
(*   Part III EntityManagerService as a generic store         SpecStore    *)
(*   Part IV  GameEventBusService                             SpecChannel  *)
(*   Part V   the subscriber lists of GameLoopService         SpecLists    *)
(*                                                                         *)
(* Time in Part I is counted in units of 1/120 s, so that the default      *)
(* fixed step 1/60 s is 2 units and the 0.25 s spike clamp is 30 units.    *)
(***************************************************************************)
EXTENDS Integers, Sequences, FiniteSets, TLC

Null == "null"

Min(a, b) == IF a < b THEN a ELSE b
Max(a, b) == IF a > b THEN a ELSE b

(***************************************************************************)
(* Part I.  GameLoopService                                                *)
(***************************************************************************)

\* config.fixedTimeStep (1/60 s) and config.maxUpdatesPerFrame
FixedTimeStep == 2
MaxUpdatesPerFrame == 5
\* the spike clamp of loop(): 0.25 s
MaxDeltaTime == 30

\* bounds of the scheduler model
MaxTime == 34
MaxFrameLag == 1
\* the wall-clock gaps between two events: below one step, a few steps, beyond
\* the catch-up ceiling, beyond the clamp
Gaps == {1, 3, 11, 31}

VARIABLES
  isRunning, isPaused,
  animationFrameId, \* the handle of the latest frame request, 0 for null
  lastTime, accumulator,
  rafPending,      \* frame requests handed to requestAnimationFrame and not yet run or cancelled
  now,             \* the wall clock read by performance.now()
  frameDue,        \* wall time has passed since the latest frame callback
  pc,              \* position inside loop(): "idle" (not in a frame), "logic", "render", "post"
  deltaTime, updatesCount,   \* locals of loop()
  lastLogicDt,     \* argument of the latest executeLogic
  refAt,           \* the instant elapsed time is to be measured from: the latest of
                   \* start(), resume() and the latest measured frame
  injected,        \* a frame measured more elapsed time than has passed since refAt
  calledPaused,    \* a callback was invoked although pause() had returned and no resume()/stop() followed
  stoppedByStop,   \* stop() has been executed at least once
  pausedTime,      \* wall time has passed in the Paused state since the latest pause()
  badOp            \* a public call had an effect other than its lifecycle transition

loopVars == << isRunning, isPaused, animationFrameId, lastTime, accumulator,
               rafPending, now, frameDue, pc, deltaTime, updatesCount,
               lastLogicDt, refAt, injected, calledPaused, stoppedByStop,
               pausedTime, badOp >>

\* Part II: the store, the module-level state of the systems, pending timers
VARIABLES
  stops,         \* entity id -> stop position and data: [id, x, waiting, rate]
  routes,        \* entity id -> route data: [id, stopIds, loop]
  buses,         \* entity id -> bus position, velocity and data
  npcs,          \* entity id -> rider position and data: [state, cur, bus, target]
  nextEntityId,  \* EntityManagerService.nextEntityId
  spawnTimers,   \* NPCSpawnerSystem.spawnTimers: stop id -> seconds
  routeCache,    \* BusMovementSystem.routeCache: [valid, map]
  stopCache,     \* BusMovementSystem.stopCache: [valid, map]
  timeouts,      \* pending setTimeout(500) callbacks of unloadPassengers, oldest first
  boardLog,      \* the loadPassengers calls of the latest updateSystems
  userOps,       \* editor and map-load operations so far
  tick           \* parity of the logic ticks delivered so far

simVars == << stops, routes, buses, npcs, nextEntityId, spawnTimers, routeCache,
              stopCache, timeouts, boardLog, userOps, tick >>

\* Part III: the generic entity store (EntityManagerService as a library)
VARIABLES
  emNextEntityId,  \* nextEntityId
  emEntities,      \* entities: a Set iterates in insertion order, kept as a sequence
  emComponents,    \* components: entity id -> (component type -> data)
  emSystems,       \* systems: a Map iterates in insertion order, kept as the sequence of names
  emIsInitialized, \* isInitialized
  issued,          \* the ids createEntity has returned so far on this instance
  reused,          \* createEntity has returned an id it had returned before
  lastOp,          \* the latest public call: its name, argument and return value
  runLog           \* what the latest updateSystems did: per invoked system its name, the
                   \* entity list handed to it, the store's matching entities at that
                   \* moment, and whether its update threw

storeVars == << emNextEntityId, emEntities, emComponents, emSystems, emIsInitialized,
                issued, reused, lastOp, runLog >>

\* Part IV: the event channel (GameEventBusService)
VARIABLES
  ebSubscribers,   \* subscribers: event type -> callbacks, a Set kept in insertion order
  ebEventHistory,  \* eventHistory
  ebIsInitialized, \* isInitialized
  published,       \* the events accepted by publish since the history was last emptied
  lastPublish,     \* the latest accepted publish: its event, the callbacks subscribed to
                   \* its type at the call, the callbacks invoked in order with what
                   \* each did, the history as it was when delivery began, and
                   \* whether an exception left publish
  handles          \* the unsubscribe closures subscribe has returned to callers that
                   \* kept them

channelVars ==
  << ebSubscribers, ebEventHistory, ebIsInitialized, published, lastPublish, handles >>

\* Part V: the subscriber lists of the scheduler (GameLoopService)
VARIABLES
  logicCallbacks,  \* logicCallbacks: an array, a callback may be in it more than once
  renderCallbacks, \* renderCallbacks
  lastExecute      \* the latest executeLogic / executeRender: which of the two, the
                   \* array when it began, the callbacks invoked in order and what
                   \* each did

listVars == << logicCallbacks, renderCallbacks, lastExecute >>

vars == << loopVars, simVars, storeVars, channelVars, listVars >>

\* what an action of one part leaves alone
otherThanLoop == << simVars, storeVars, channelVars, listVars >>
otherThanSim == << loopVars, storeVars, channelVars, listVars >>
otherThanStore == << loopVars, simVars, channelVars, listVars >>
otherThanChannel == << loopVars, simVars, storeVars, listVars >>
otherThanLists == << loopVars, simVars, storeVars, channelVars >>

\* the scheduler's state as the spec names it
LoopState(run, paused) ==
  IF ~run THEN "Stopped" ELSE IF paused THEN "Paused" ELSE "Running"

CurState == LoopState(isRunning, isPaused)

\* requestAnimationFrame: a fresh handle
NewRafId == CHOOSE i \in 1..(Cardinality(rafPending) + 2) :
              i \notin rafPending /\ i # animationFrameId

LoopInit ==
  /\ isRunning = FALSE
  /\ isPaused = FALSE
  /\ animationFrameId = 0
  /\ lastTime = 0
  /\ accumulator = 0
  /\ rafPending = {}
  /\ now = 0
  /\ frameDue = TRUE
  /\ pc = "idle"
  /\ deltaTime = 0
  /\ updatesCount = 0
  /\ lastLogicDt = FixedTimeStep
  /\ refAt = 0
  /\ injected = FALSE
  /\ calledPaused = FALSE
  /\ stoppedByStop = FALSE
  /\ pausedTime = FALSE
  /\ badOp = FALSE

\* ---- the four public calls, as effects on a record of the fields they touch

LoopFields == [run |-> isRunning, paused |-> isPaused, raf |-> animationFrameId,
               last |-> lastTime, acc |-> accumulator, pend |-> rafPending,
               ref |-> refAt, stopped |-> stoppedByStop, ptime |-> pausedTime]

StartFx(f) ==
  IF f.run THEN f
  ELSE LET id == NewRafId IN
       [f EXCEPT !.run = TRUE, !.paused = FALSE, !.last = now, !.acc = 0,
                 !.raf = id, !.pend = f.pend \cup {id}, !.ref = now]

StopFx(f) ==
  IF ~f.run THEN f
  ELSE [f EXCEPT !.run = FALSE, !.paused = FALSE,
                 !.pend = IF f.raf # 0 THEN f.pend \ {f.raf} ELSE f.pend,
                 !.raf = 0, !.stopped = TRUE]

PauseFxUnguarded(f) ==
  IF f.paused THEN f
  ELSE [f EXCEPT !.paused = TRUE, !.ptime = FALSE]

PauseFx(f) ==
  IF ~f.run \/ f.paused THEN f
  ELSE [f EXCEPT !.paused = TRUE, !.ptime = FALSE]

ResumeFxStaleClock(f) ==
  IF ~f.run \/ ~f.paused THEN f
  ELSE [f EXCEPT !.paused = FALSE, !.ref = now]

ResumeFx(f) ==
  IF ~f.run \/ ~f.paused THEN f
  ELSE [f EXCEPT !.paused = FALSE, !.last = now, !.ref = now]

ApiOps == {"start", "stop", "pause", "resume"}

ApiFx(op, f) ==
  CASE op = "start"  -> StartFx(f)
    [] op = "stop"   -> StopFx(f)
    [] op = "pause"  -> PauseFx(f)
    [] op = "resume" -> ResumeFx(f)
    [] OTHER         -> f

\* the lifecycle transition of one public call: Stopped -> Running (start),
\* Running -> Paused (pause), Paused -> Running (resume), Running or Paused ->
\* Stopped (stop); any other call leaves every field as it was
OpOK(op, f, g) ==
  CASE op = "start"  -> IF ~f.run THEN g.run /\ ~g.paused ELSE g = f
    [] op = "pause"  -> IF f.run /\ ~f.paused THEN g.run /\ g.paused ELSE g = f
    [] op = "resume" -> IF f.run /\ f.paused THEN g.run /\ ~g.paused ELSE g = f
    [] op = "stop"   -> IF f.run THEN ~g.run ELSE g = f
    [] OTHER         -> g = f

\* write a field record back
SetFields(f) ==
  /\ isRunning' = f.run
  /\ isPaused' = f.paused
  /\ animationFrameId' = f.raf
  /\ lastTime' = f.last
  /\ accumulator' = f.acc
  /\ rafPending' = f.pend
  /\ refAt' = f.ref
  /\ stoppedByStop' = f.stopped
  /\ pausedTime' = f.ptime

\* a public call made between frames (from a UI handler, initGame, cleanup)
ApiCall(op) ==
  /\ pc = "idle"
  /\ SetFields(ApiFx(op, LoopFields))
  /\ badOp' = (badOp \/ ~OpOK(op, LoopFields, ApiFx(op, LoopFields)))
  /\ UNCHANGED << now, frameDue, pc, deltaTime, updatesCount, lastLogicDt,
                  injected, calledPaused >>
  /\ UNCHANGED otherThanLoop

Start == ApiCall("start")
Stop == ApiCall("stop")
Pause == ApiCall("pause")
Resume == ApiCall("resume")

\* wall time passes (only between frames: a frame runs to completion)
Tick ==
  /\ pc = "idle"
  /\ \E d \in Gaps :
       /\ now + d <= MaxTime
       /\ now' = now + d
  /\ frameDue' = TRUE
  /\ pausedTime' = (pausedTime \/ (isRunning /\ isPaused))
  /\ UNCHANGED << isRunning, isPaused, animationFrameId, lastTime, accumulator,
                  rafPending, pc, deltaTime, updatesCount, lastLogicDt,
                  refAt, injected, calledPaused, stoppedByStop, badOp >>
  /\ UNCHANGED otherThanLoop

\* the while condition of loop()
MoreUpdates(acc, cnt) == acc >= FixedTimeStep /\ cnt < MaxUpdatesPerFrame

\* loop(currentTime), from its entry to the first evaluation of the while condition.
\* The browser runs one pending frame request; its timestamp is the frame's start
\* time, which may lie up to MaxFrameLag before the clock value a handler read
\* earlier in the same frame; frames are separated by wall time, so timestamps
\* never decrease.
LoopEnter ==
  /\ pc = "idle"
  /\ frameDue
  /\ frameDue' = FALSE
  /\ \E id \in rafPending, currentTime \in Max(0, now - MaxFrameLag)..now :
       /\ IF ~isRunning
            THEN /\ rafPending' = rafPending \ {id}
                 /\ UNCHANGED << animationFrameId, lastTime, accumulator, pc, deltaTime,
                                 updatesCount, injected, refAt >>
            ELSE LET nid == CHOOSE i \in 1..(Cardinality(rafPending) + 2) :
                              i \notin (rafPending \ {id}) /\ i # id
                 IN
                 /\ rafPending' = (rafPending \ {id}) \cup {nid}
                 /\ animationFrameId' = nid
                 /\ IF isPaused
                      THEN UNCHANGED << lastTime, accumulator, pc, deltaTime, updatesCount,
                                        injected, refAt >>
                      ELSE LET raw == currentTime - lastTime
                               dt == IF raw > MaxDeltaTime THEN MaxDeltaTime ELSE raw
                               acc == accumulator + dt
                           IN
                           /\ injected' = (injected \/ raw > Max(0, currentTime - refAt))
                           /\ refAt' = currentTime
                           /\ lastTime' = currentTime
                           /\ deltaTime' = dt
                           /\ accumulator' = acc
                           /\ updatesCount' = 0
                           /\ pc' = IF MoreUpdates(acc, 0) THEN "logic" ELSE "render"
  /\ UNCHANGED << isRunning, isPaused, now, lastLogicDt, calledPaused, stoppedByStop,
                  pausedTime, badOp >>
  /\ UNCHANGED otherThanLoop

\* what a subscriber may do while it runs: nothing, or one public call
CallbackOps == ApiOps \cup {"none"}

\* one iteration of the while loop: executeLogic(fixedTimeStep), then
\* accumulator -= fixedTimeStep, updatesCount++
LogicStep ==
  /\ pc = "logic"
  /\ \E op \in CallbackOps :
       LET g == ApiFx(op, LoopFields)
           acc == g.acc - FixedTimeStep
           cnt == updatesCount + 1
       IN
       /\ SetFields([g EXCEPT !.acc = acc])
       /\ badOp' = (badOp \/ ~OpOK(op, LoopFields, g))
       /\ updatesCount' = cnt
       /\ pc' = IF MoreUpdates(acc, cnt) THEN "logic" ELSE "render"
  /\ lastLogicDt' = FixedTimeStep
  /\ calledPaused' = (calledPaused \/ isPaused)
  /\ UNCHANGED << now, frameDue, deltaTime, injected >>
  /\ UNCHANGED otherThanLoop

\* executeRender(deltaTime)
RenderStep ==
  /\ pc = "render"
  /\ \E op \in CallbackOps :
       /\ SetFields(ApiFx(op, LoopFields))
       /\ badOp' = (badOp \/ ~OpOK(op, LoopFields, ApiFx(op, LoopFields)))
  /\ calledPaused' = (calledPaused \/ isPaused)
  /\ pc' = "post"
  /\ UNCHANGED << now, frameDue, deltaTime, updatesCount, lastLogicDt, injected >>
  /\ UNCHANGED otherThanLoop

\* the spiral-of-death guard that ends loop()
LoopExit ==
  /\ pc = "post"
  /\ accumulator' = IF updatesCount >= MaxUpdatesPerFrame THEN 0 ELSE accumulator
  /\ pc' = "idle"
  /\ deltaTime' = 0
  /\ updatesCount' = 0
  /\ UNCHANGED << isRunning, isPaused, animationFrameId, lastTime, rafPending, now,
                  frameDue, lastLogicDt, refAt, injected, calledPaused, stoppedByStop,
                  pausedTime, badOp >>
  /\ UNCHANGED otherThanLoop

LoopNext ==
  \/ Start \/ Stop \/ Pause \/ Resume
  \/ Tick
  \/ LoopEnter \/ LogicStep \/ RenderStep \/ LoopExit

(***************************************************************************)
(* Part I: properties                                                      *)
(***************************************************************************)

\* C7: in a frame the logic cadence is invoked at most maxUpdatesPerFrame times,
\* each time with exactly fixedTimeStep, and after every frame
\* 0 <= accumulator < fixedTimeStep, for every sequence of frame timestamps.
C7_CatchUpCeiling ==
  /\ updatesCount <= MaxUpdatesPerFrame
  /\ lastLogicDt = FixedTimeStep
  /\ (pc = "idle" => (0 <= accumulator /\ accumulator < FixedTimeStep))

\* C8: from the moment pause() returns until resume() or stop(), no logic
\* callback and no render callback is invoked.
C8_PauseFreezesBothCadences == ~calledPaused

\* C9: wall time that passes between pause() and resume() is never measured: no
\* frame computes an elapsed time larger than the time that has passed since the
\* latest of start(), resume() and the previous measured frame, and the scheduler's
\* time reference of a running scheduler is that latest instant.
C9_ResumeInjectsNoTime ==
  /\ ~injected
  /\ (isRunning /\ ~isPaused => lastTime = refAt)

\* a frame is being measured after a pause during which wall time passed
C9_Witness ==
  /\ pausedTime
  /\ isRunning /\ ~isPaused
  /\ pc = "render"
  /\ now > lastTime - 1
  /\ deltaTime >= 1

LifecyclePairs ==
  { << "Stopped", "Running" >>, << "Running", "Paused" >>, << "Paused", "Running" >>,
    << "Running", "Stopped" >>, << "Paused", "Stopped" >> }

\* C10 as amended: the only transitions are Stopped -> Running (start),
\* Running -> Paused (pause), Paused -> Running (resume) and Running or Paused ->
\* Stopped (stop); every other public call changes nothing; Stopped reached
\* through stop() is left again by start().
C10_Lifecycle ==
  /\ [](~badOp)
  /\ [][ CurState' # CurState => << CurState, CurState' >> \in LifecyclePairs ]_loopVars

\* the scheduler runs again after a stop()
C10_Witness == stoppedByStop /\ isRunning /\ pc = "render"

\* C10 as written: Stopped reached through stop() is terminal.
C10_StoppedIsTerminal ==
  /\ ~badOp
  /\ (stoppedByStop => ~isRunning)

(***************************************************************************)
(* Part II.  The entity store and the simulation systems                   *)
(*                                                                         *)
(* The world is one-dimensional: stops lie on a line, a position is its x. *)
(* Time is counted in seconds and the logic cadence of this part runs with *)
(* a fixed step of one second (GameLoopConfig.fixedTimeStep is a           *)
(* constructor parameter), which keeps 150 px/s, 50 px/s^2, 10 px and      *)
(* 3.0 s integral.  A square root is rounded down.                         *)
(***************************************************************************)

\* createBusOnRoute / createBusFromSave
BusCapacity == 20
BusMaxSpeed == 150
BusAcceleration == 50
WaitTimeRequired == 3
\* busMovementSystem: arrival radius
ArrivalRadius == 10
\* npcSpawnerSystem
MaxPassengersPerStop == 100
DefaultSpawnInterval == 5

\* the step the logic subscriber of init.ts hands to updateSystems, in seconds
StepDt == 1

\* EntityManagerConfig.maxEntities of the modelled store, and the number of
\* entity ids a behaviour may use up
MaxEntities == 8
MaxEntityId == 12
\* the most vehicles the player puts on the map
MaxBuses == 2
\* the number of editor and map-load operations of a behaviour
MaxUserOps == 3
\* the logic cadence stops once a stop counts this many waiting riders
MaxWaiting == 3
\* distance between neighbouring stops
StopGap == 55
\* spawn interval (seconds) the saved stops carry for the current period
SavedSpawnRate == 3

\* no entity: a null busEntityId, the -1 of createEntity() at the ceiling
NoEntity == -1
\* a stop data component without spawnRates (stops placed in the editor)
NoRates == -1
\* the value of a property an object does not have
Undefined == "undefined"

StopNames == {"s1", "s2", "s3"}
StopX(s) == CASE s = "s1" -> StopGap [] s = "s2" -> 2 * StopGap [] OTHER -> 3 * StopGap
RouteNames == {"r1", "r2"}
RouteOrder(r) == IF r = "r1" THEN 1 ELSE 2
\* the stop lists a route is drawn or saved with
RouteShapes == { << "s1", "s2" >>, << "s1", "s2", "s3" >> }
\* Math.random() as the index it selects
Seeds == {0, 1}

\* what a save file holds for its vehicles: any numbers.  A vehicle saved before
\* its first stop, one saved with riders aboard, one with an index and a rider
\* count the route and the capacity do not allow
SavedBuses ==
  { << >>,
    << [routeId |-> "r1", currentStopIndex |-> -1, passengers |-> 0] >>,
    << [routeId |-> "r1", currentStopIndex |-> 0, passengers |-> 19] >>,
    << [routeId |-> "r1", currentStopIndex |-> 2, passengers |-> 21] >> }
SavedMaps ==
  { [stops  |-> << [id |-> "s1", x |-> StopX("s1"), rate |-> SavedSpawnRate],
                  [id |-> "s2", x |-> StopX("s2"), rate |-> SavedSpawnRate] >>,
     routes |-> << [id |-> "r1", stopIds |-> << "s1", "s2" >>, loop |-> l] >>,
     buses  |-> b] : l \in BOOLEAN, b \in SavedBuses }

Abs(a) == IF a < 0 THEN -a ELSE a
Sign(a) == IF a < 0 THEN -1 ELSE IF a > 0 THEN 1 ELSE 0

Put(f, k, v) == [x \in (DOMAIN f) \cup {k} |-> IF x = k THEN v ELSE f[x]]
Drop(f, k) == [x \in (DOMAIN f) \ {k} |-> f[x]]
EmptyMap == [x \in {} |-> 0]

MinOf(S) == CHOOSE x \in S : \A y \in S : x <= y
MaxOf(S) == CHOOSE x \in S : \A y \in S : x >= y

\* a Set of entity ids iterates in insertion order, which is ascending id
RECURSIVE SortedSeq(_)
SortedSeq(S) ==
  IF S = {} THEN << >>
  ELSE << MinOf(S) >> \o SortedSeq(S \ {MinOf(S)})

\* the world as one value
World == [stops |-> stops, routes |-> routes, buses |-> buses, npcs |-> npcs,
          next |-> nextEntityId, spawnTimers |-> spawnTimers, rc |-> routeCache,
          sc |-> stopCache, timeouts |-> timeouts, log |-> boardLog]

SetWorld(w) ==
  /\ stops' = w.stops
  /\ routes' = w.routes
  /\ buses' = w.buses
  /\ npcs' = w.npcs
  /\ nextEntityId' = w.next
  /\ spawnTimers' = w.spawnTimers
  /\ routeCache' = w.rc
  /\ stopCache' = w.sc
  /\ timeouts' = w.timeouts
  /\ boardLog' = w.log

NoCache == [valid |-> FALSE, map |-> EmptyMap]

SimInit ==
  /\ stops = EmptyMap
  /\ routes = EmptyMap
  /\ buses = EmptyMap
  /\ npcs = EmptyMap
  /\ nextEntityId = 0
  /\ spawnTimers = EmptyMap
  /\ routeCache = NoCache
  /\ stopCache = NoCache
  /\ timeouts = << >>
  /\ boardLog = << >>
  /\ userOps = 0
  /\ tick = FALSE

\* ---- EntityManagerService ----

EntityCount(w) ==
  Cardinality(DOMAIN w.stops) + Cardinality(DOMAIN w.routes)
    + Cardinality(DOMAIN w.buses) + Cardinality(DOMAIN w.npcs)

HasEntity(w, e) ==
  e \in (DOMAIN w.stops) \cup (DOMAIN w.routes) \cup (DOMAIN w.buses) \cup (DOMAIN w.npcs)

\* createEntity(): the id handed out, -1 at the ceiling
CreateEntity(w) == IF EntityCount(w) >= MaxEntities THEN NoEntity ELSE w.next

DestroyEntity(w, e) ==
  [w EXCEPT !.stops = IF e \in DOMAIN @ THEN Drop(@, e) ELSE @,
            !.routes = IF e \in DOMAIN @ THEN Drop(@, e) ELSE @,
            !.buses = IF e \in DOMAIN @ THEN Drop(@, e) ELSE @,
            !.npcs = IF e \in DOMAIN @ THEN Drop(@, e) ELSE @]

\* the first route component, in entity order, whose id is rid
RouteEntitiesOf(w, rid) == {e \in DOMAIN w.routes : w.routes[e].id = rid}
HasRoute(w, rid) == RouteEntitiesOf(w, rid) # {}
FindRoute(w, rid) == w.routes[MinOf(RouteEntitiesOf(w, rid))]

\* ---- BusMovementSystem ----

\* routeCache.set(r.id, r) and stopCache.set(sData.id, pos) over the entities in
\* order: the last entity with an id is the one the cache keeps
BuildRouteCache(w) ==
  [valid |-> TRUE,
   map |-> [rid \in {w.routes[e].id : e \in DOMAIN w.routes} |->
              w.routes[MaxOf(RouteEntitiesOf(w, rid))]]]

BuildStopCache(w) ==
  [valid |-> TRUE,
   map |-> [sid \in {w.stops[e].id : e \in DOMAIN w.stops} |->
              w.stops[MaxOf({e \in DOMAIN w.stops : w.stops[e].id = sid})].x]]

\* stopIds[i] of a JavaScript array, i counted from 0
At(stopIds, i) == IF i >= 0 /\ i < Len(stopIds) THEN stopIds[i + 1] ELSE Undefined

\* getTargetStopPosition: the caches it leaves behind and the position found
GetTargetStopPosition(w, routeId, stopIndex) ==
  IF routeId = Null THEN [rc |-> w.rc, sc |-> w.sc, found |-> FALSE, x |-> 0]
  ELSE
    LET rc == IF w.rc.valid THEN w.rc ELSE BuildRouteCache(w) IN
    IF routeId \notin DOMAIN rc.map THEN [rc |-> rc, sc |-> w.sc, found |-> FALSE, x |-> 0]
    ELSE
      LET routeData == rc.map[routeId]
          \* an index past the end of a looping route is looked up again as 0
          idx == IF stopIndex >= Len(routeData.stopIds) /\ routeData.loop THEN 0 ELSE stopIndex
      IN
      IF idx >= Len(routeData.stopIds) THEN [rc |-> rc, sc |-> w.sc, found |-> FALSE, x |-> 0]
      ELSE
        LET sc == IF w.sc.valid THEN w.sc ELSE BuildStopCache(w)
            targetStopId == At(routeData.stopIds, idx)
        IN
        IF targetStopId \in DOMAIN sc.map
        THEN [rc |-> rc, sc |-> sc, found |-> TRUE, x |-> sc.map[targetStopId]]
        ELSE [rc |-> rc, sc |-> sc, found |-> FALSE, x |-> 0]

\* Math.max(0, Math.min(speed, Math.sqrt(n))), rounded down
BrakeSpeed(speed, n) ==
  CHOOSE r \in 0..speed : r * r <= n /\ (r = speed \/ (r + 1) * (r + 1) > n)

\* isFinalStopForRoute
IsFinalStopForRoute(w, bus) ==
  IF bus.routeId = Null \/ ~HasRoute(w, bus.routeId) THEN FALSE
  ELSE LET rComp == FindRoute(w, bus.routeId) IN
       bus.idx >= Len(rComp.stopIds) - 1 /\ ~rComp.loop

\* the index a vehicle that last stopped at index last is due at next
NextIndex(w, bus, last) ==
  IF bus.routeId = Null \/ ~HasRoute(w, bus.routeId) THEN last + 1
  ELSE LET rComp == FindRoute(w, bus.routeId) IN
       IF last < 0 THEN 0
       ELSE IF last + 1 >= Len(rComp.stopIds) /\ rComp.loop THEN 0
       ELSE last + 1

RidersOn(w, b) == {n \in DOMAIN w.npcs : w.npcs[n].state = "on_bus" /\ w.npcs[n].bus = b}

\* the vehicle has reached its target: snap, stop, start the dwell
Arrive(w, b, x) ==
  LET bus == w.buses[b] IN
  [bus EXCEPT !.x = x, !.state = "stopped", !.isMoving = FALSE, !.speed = 0,
              !.waitTimer = WaitTimeRequired,
              \* history: the stop indices visited, the arrival at the terminus
              !.inOrder = @ /\ bus.idx = NextIndex(w, bus, bus.lastStop),
              !.lastStop = bus.idx,
              !.terminus = @ \/ IsFinalStopForRoute(w, bus),
              !.aboard = IF IsFinalStopForRoute(w, bus) THEN RidersOn(w, b) ELSE @]

\* safeDistance (line 84): the distance left to the point where the vehicle is
\* to stand, not below 0; the variant has no floor and its operands swapped
SafeDistanceSwapped(distance) == ArrivalRadius - distance
SafeDistance(distance) == Max(0, distance - ArrivalRadius)

\* busMovementSystem.update for one entity.  Math.sqrt of a negative number is
\* NaN, and so is every number computed from it (speedNaN, xNaN); a comparison
\* with NaN is false
MoveBus(w, b, dt) ==
  LET bus == w.buses[b] IN
  IF bus.state # "moving_to_stop" THEN w
  ELSE IF bus.xNaN /\ GetTargetStopPosition(w, bus.routeId, bus.idx).found
    THEN \* the distance is NaN: no arrival, no braking
         LET t == GetTargetStopPosition(w, bus.routeId, bus.idx)
             speed == IF ~bus.speedNaN /\ bus.speed < BusMaxSpeed
                      THEN Min(bus.speed + BusAcceleration * dt, BusMaxSpeed)
                      ELSE bus.speed
         IN [w EXCEPT !.rc = t.rc, !.sc = t.sc, !.buses[b].speed = speed]
  ELSE
    LET t == GetTargetStopPosition(w, bus.routeId, bus.idx)
        w1 == [w EXCEPT !.rc = t.rc, !.sc = t.sc]
    IN
    IF ~t.found
    THEN [w1 EXCEPT !.buses[b] = [bus EXCEPT !.state = "idle", !.isMoving = FALSE,
                                             !.speed = 0, !.speedNaN = FALSE]]
    ELSE
      LET dx == t.x - bus.x
          distance == Abs(dx)
      IN
      IF distance < ArrivalRadius THEN [w1 EXCEPT !.buses[b] = Arrive(w, b, t.x)]
      ELSE
        LET \* distance < speed^2 / (2 a) + 10
            braking == 2 * BusAcceleration * (distance - ArrivalRadius) < bus.speed * bus.speed
            \* what Math.sqrt is applied to
            radicand == 2 * BusAcceleration * SafeDistance(distance)
            speed ==
              IF braking
              THEN BrakeSpeed(bus.speed, Max(0, radicand))
              ELSE IF bus.speed < BusMaxSpeed
                   THEN Min(bus.speed + BusAcceleration * dt, BusMaxSpeed)
                   ELSE bus.speed
        IN IF braking /\ radicand < 0
             THEN [w1 EXCEPT !.buses[b] = [bus EXCEPT !.speedNaN = TRUE, !.xNaN = TRUE]]
             ELSE [w1 EXCEPT !.buses[b] = [bus EXCEPT !.speed = speed,
                                                     !.x = bus.x + Sign(dx) * speed * dt]]

RECURSIVE MovementSystem(_, _, _)
MovementSystem(w, ids, dt) ==
  IF ids = << >> THEN w
  ELSE MovementSystem(MoveBus(w, Head(ids), dt), Tail(ids), dt)

\* ---- BusLogicSystem ----

AdvanceToNextStopWrapping(w, bus) ==
  IF bus.routeId = Null \/ ~HasRoute(w, bus.routeId) THEN [bus EXCEPT !.state = "idle"]
  ELSE [bus EXCEPT !.idx = IF bus.idx + 1 >= Len(FindRoute(w, bus.routeId).stopIds)
                            THEN 0 ELSE bus.idx + 1,
                   !.state = "moving_to_stop", !.isMoving = TRUE, !.speed = 0,
                       !.speedNaN = FALSE]

AdvanceToNextStop(w, bus) ==
  IF bus.routeId = Null THEN [bus EXCEPT !.state = "idle"]
  ELSE
    LET routeLen == IF HasRoute(w, bus.routeId) THEN Len(FindRoute(w, bus.routeId).stopIds) ELSE 0
        isLoop == IF HasRoute(w, bus.routeId) THEN FindRoute(w, bus.routeId).loop ELSE FALSE
    IN
    IF routeLen = 0 THEN [bus EXCEPT !.state = "idle"]
    ELSE IF bus.idx + 1 >= routeLen /\ ~isLoop
      THEN [bus EXCEPT !.idx = routeLen - 1, !.state = "idle", !.isMoving = FALSE]
      ELSE [bus EXCEPT !.idx = IF bus.idx + 1 >= routeLen THEN 0 ELSE bus.idx + 1,
                       !.state = "moving_to_stop", !.isMoving = TRUE, !.speed = 0,
                       !.speedNaN = FALSE]

\* a variant that leaves a stop one call late: waitTimer < 0 for waitTimer <= 0
LogicBusLate(w, b, dt) ==
  LET bus == w.buses[b] IN
  IF bus.state = "stopped"
  THEN LET timed == [bus EXCEPT !.waitTimer = @ - dt] IN
       IF timed.waitTimer < 0
       THEN [w EXCEPT !.buses[b] = AdvanceToNextStop(w, timed)]
       ELSE [w EXCEPT !.buses[b] = timed]
  ELSE IF bus.state = "idle" /\ bus.routeId # Null
       THEN [w EXCEPT !.buses[b] = AdvanceToNextStop(w, bus)]
       ELSE w

\* busLogicSystem.update for one entity
LogicBus(w, b, dt) ==
  LET bus == w.buses[b] IN
  IF bus.state = "stopped"
  THEN LET timed == [bus EXCEPT !.waitTimer = @ - dt] IN
       IF timed.waitTimer <= 0
       THEN [w EXCEPT !.buses[b] = AdvanceToNextStop(w, timed)]
       ELSE [w EXCEPT !.buses[b] = timed]
  ELSE IF bus.state = "idle" /\ bus.routeId # Null
       THEN [w EXCEPT !.buses[b] = AdvanceToNextStop(w, bus)]
       ELSE w

RECURSIVE LogicSystem(_, _, _)
LogicSystem(w, ids, dt) ==
  IF ids = << >> THEN w
  ELSE LogicSystem(LogicBus(w, Head(ids), dt), Tail(ids), dt)

\* ---- NPCSpawnerSystem ----

\* Array.indexOf, counted from 0; -1 when absent
IndexOf(seq, x) ==
  IF \E i \in 1..Len(seq) : seq[i] = x
  THEN MinOf({i \in 1..Len(seq) : seq[i] = x}) - 1
  ELSE -1

InSeq(seq, x) == \E i \in 1..Len(seq) : seq[i] = x

\* Set.add of the elements of seq from position from (1-based) on
RECURSIVE AddAll(_, _, _)
AddAll(acc, seq, from) ==
  IF from > Len(seq) THEN acc
  ELSE AddAll(IF InSeq(acc, seq[from]) THEN acc ELSE Append(acc, seq[from]), seq, from + 1)

\* getFutureStopsFromStop: the stops after the first occurrence of the stop on
\* every route, in the order the Set received them
RECURSIVE FutureStops(_, _, _, _)
FutureStops(w, ids, currentStopId, acc) ==
  IF ids = << >> THEN acc
  ELSE LET routeData == w.routes[Head(ids)]
           currentIndex == IndexOf(routeData.stopIds, currentStopId)
       IN FutureStops(w, Tail(ids), currentStopId,
                      IF currentIndex = -1 THEN acc
                      ELSE AddAll(acc, routeData.stopIds, currentIndex + 2))

RECURSIVE OtherStops(_, _, _)
OtherStops(w, ids, stopId) ==
  IF ids = << >> THEN << >>
  ELSE (IF w.stops[Head(ids)].id # stopId THEN << w.stops[Head(ids)].id >> ELSE << >>)
         \o OtherStops(w, Tail(ids), stopId)

\* spawnNPC; seed is what Math.random() selects
SpawnNPC(w, stopId, seed) ==
  LET entityId == CreateEntity(w) IN
  IF entityId = NoEntity THEN w
  ELSE
    LET futureStops == FutureStops(w, SortedSeq(DOMAIN w.routes), stopId, << >>)
        otherStops == OtherStops(w, SortedSeq(DOMAIN w.stops), stopId)
        targetStopId ==
          IF Len(futureStops) > 0 THEN futureStops[(seed % Len(futureStops)) + 1]
          ELSE IF Len(otherStops) > 0 THEN otherStops[(seed % Len(otherStops)) + 1]
          ELSE Null
    IN [w EXCEPT !.next = @ + 1,
                 !.npcs = Put(@, entityId, [state |-> "waiting", cur |-> stopId,
                                            bus |-> NoEntity, target |-> targetStopId])]

\* npcSpawnerSystem.update; reading spawnRates of a stop that has none throws,
\* which ends the system's update for this call
RECURSIVE SpawnerSystem(_, _, _, _)
SpawnerSystem(w, ids, dt, seeds) ==
  IF ids = << >> THEN w
  ELSE
    LET e == Head(ids)
        stopData == w.stops[e]
    IN
    IF stopData.waiting >= MaxPassengersPerStop THEN SpawnerSystem(w, Tail(ids), dt, seeds)
    ELSE IF stopData.rate = NoRates THEN w
    ELSE
      LET spawnInterval == IF stopData.rate = 0 THEN DefaultSpawnInterval ELSE stopData.rate
          timer == (IF stopData.id \in DOMAIN w.spawnTimers
                    THEN w.spawnTimers[stopData.id] ELSE 0) + dt
          w1 == IF timer >= spawnInterval
                THEN [SpawnNPC(w, stopData.id, seeds[e]) EXCEPT !.stops[e].waiting = @ + 1]
                ELSE w
          w2 == [w1 EXCEPT !.spawnTimers =
                   Put(@, stopData.id, IF timer >= spawnInterval THEN 0 ELSE timer)]
      IN SpawnerSystem(w2, Tail(ids), dt, seeds)

\* ---- NPCInteractionSystem ----

\* getCurrentStopId: the first route with the vehicle's route id whose stop
\* list reaches the vehicle's index
GetCurrentStopId(w, bus) ==
  IF bus.routeId = Null THEN Null
  ELSE LET long == {e \in RouteEntitiesOf(w, bus.routeId) : bus.idx < Len(w.routes[e].stopIds)} IN
       IF long = {} THEN Null
       ELSE LET stopId == At(w.routes[MinOf(long)].stopIds, bus.idx) IN
            IF stopId = Undefined THEN Null ELSE stopId

\* npcData.targetStopId: spawnNPC puts targetStopId on the position component,
\* the data component has no such property
DataTargetStopId(npc) == Undefined

\* a variant that leaves busEntityId on the rider it sets down
UnloadPassengersKeepingBus(w, b, stopId) ==
  LET isFinalStop == IsFinalStopForRoute(w, w.buses[b])
      leaving == {n \in RidersOn(w, b) :
                    isFinalStop \/ DataTargetStopId(w.npcs[n]) = stopId}
  IN [w EXCEPT !.npcs = [n \in DOMAIN @ |->
                           IF n \in leaving
                           THEN [@[n] EXCEPT !.state = "arrived", !.cur = stopId]
                           ELSE @[n]],
               !.timeouts = @ \o SortedSeq(leaving),
               !.buses[b].passengers = IF leaving # {} THEN 0 ELSE @]

\* unloadPassengers
UnloadPassengers(w, b, stopId) ==
  LET isFinalStop == IsFinalStopForRoute(w, w.buses[b])
      leaving == {n \in RidersOn(w, b) :
                    isFinalStop \/ DataTargetStopId(w.npcs[n]) = stopId}
  IN [w EXCEPT !.npcs = [n \in DOMAIN @ |->
                           IF n \in leaving
                           THEN [@[n] EXCEPT !.state = "arrived", !.bus = NoEntity, !.cur = stopId]
                           ELSE @[n]],
               !.timeouts = @ \o SortedSeq(leaving),
               !.buses[b].passengers = IF leaving # {} THEN 0 ELSE @]

\* updateStopQueue(stopId, -1)
UpdateStopQueue(w, stopId) ==
  LET same == {e \in DOMAIN w.stops : w.stops[e].id = stopId} IN
  IF same = {} THEN w
  ELSE [w EXCEPT !.stops[MinOf(same)].waiting = Max(0, @ - 1)]

\* the loop of loadPassengers over the riders
RECURSIVE LoadLoop(_, _, _, _)
LoadLoop(w, b, stopId, ids) ==
  IF ids = << >> \/ w.buses[b].passengers >= w.buses[b].capacity THEN w
  ELSE
    LET npcId == Head(ids) IN
    IF w.npcs[npcId].state = "waiting" /\ w.npcs[npcId].cur = stopId
    THEN LoadLoop(UpdateStopQueue(
                    [w EXCEPT !.npcs[npcId].state = "on_bus", !.npcs[npcId].bus = b,
                              !.buses[b].passengers = @ + 1], stopId),
                  b, stopId, Tail(ids))
    ELSE LoadLoop(w, b, stopId, Tail(ids))

WaitingAt(w, stopId) ==
  {n \in DOMAIN w.npcs : w.npcs[n].state = "waiting" /\ w.npcs[n].cur = stopId}

StopWaiting(w, stopId) ==
  LET same == {e \in DOMAIN w.stops : w.stops[e].id = stopId} IN
  IF same = {} THEN 0 ELSE w.stops[MinOf(same)].waiting

\* loadPassengers, and what it did to the riders, the vehicle and the stop counter
LoadPassengers(w, b, stopId) ==
  LET w1 == IF w.buses[b].passengers >= w.buses[b].capacity THEN w
            ELSE LoadLoop(w, b, stopId, SortedSeq(DOMAIN w.npcs))
  IN [w1 EXCEPT !.log = Append(@,
        [k |-> Cardinality(WaitingAt(w, stopId)),
         r |-> w.buses[b].capacity - w.buses[b].passengers,
         boarded |-> Cardinality(RidersOn(w1, b) \ RidersOn(w, b)),
         left |-> Cardinality(WaitingAt(w1, stopId)),
         dPassengers |-> w1.buses[b].passengers - w.buses[b].passengers,
         dWaiting |-> StopWaiting(w, stopId) - StopWaiting(w1, stopId)])]

\* a variant that takes riders aboard at the terminus as well
InteractBusLoadingAtTerminus(w, b) ==
  LET busData == w.buses[b] IN
  IF busData.state # "stopped" THEN w
  ELSE
    LET currentStopId == GetCurrentStopId(w, busData) IN
    IF currentStopId = Null THEN w
    ELSE LoadPassengers(UnloadPassengers(w, b, currentStopId), b, currentStopId)

\* npcInteractionSystem.update for one entity
InteractBus(w, b) ==
  LET busData == w.buses[b] IN
  IF busData.state # "stopped" THEN w
  ELSE
    LET currentStopId == GetCurrentStopId(w, busData) IN
    IF currentStopId = Null THEN w
    ELSE LET isFinalStop == IsFinalStopForRoute(w, busData)
             w1 == UnloadPassengers(w, b, currentStopId)
         IN IF isFinalStop THEN w1 ELSE LoadPassengers(w1, b, currentStopId)

RECURSIVE InteractionSystem(_, _)
InteractionSystem(w, ids) ==
  IF ids = << >> THEN w
  ELSE InteractionSystem(InteractBus(w, Head(ids)), Tail(ids))

\* ---- EntityManagerService.updateSystems, in the registration order of init.ts ----

UpdateSystemsFx(w, dt, seeds) ==
  LET w0 == [w EXCEPT !.log = << >>]
      w1 == MovementSystem(w0, SortedSeq(DOMAIN w0.buses), dt)
      w2 == LogicSystem(w1, SortedSeq(DOMAIN w1.buses), dt)
      w3 == SpawnerSystem(w2, SortedSeq(DOMAIN w2.stops), dt, seeds)
  IN InteractionSystem(w3, SortedSeq(DOMAIN w3.buses))

\* the stops whose spawn timer is due in a call with step dt
Spawning(dt) ==
  {e \in DOMAIN stops :
     /\ stops[e].rate # NoRates
     /\ (IF stops[e].id \in DOMAIN spawnTimers THEN spawnTimers[stops[e].id] ELSE 0) + dt
          >= (IF stops[e].rate = 0 THEN DefaultSpawnInterval ELSE stops[e].rate)}

UpdateSystems(dt) ==
  /\ \E seeds \in [Spawning(dt) -> Seeds] :
       SetWorld(UpdateSystemsFx(World, dt, seeds))
  /\ UNCHANGED << userOps, otherThanSim >>

\* the logic cadence has entity ids and queue room left in the model
TickBudget ==
  /\ nextEntityId + Cardinality(DOMAIN stops) <= MaxEntityId
  /\ \A e \in DOMAIN stops : stops[e].waiting < MaxWaiting

\* the logic subscriber: updateSystems(deltaTime) with the fixed step
LogicTick == TickBudget /\ UpdateSystems(StepDt) /\ tick' = ~tick
\* the render subscriber: updateSystems(0)
RenderFrame == UpdateSystems(0) /\ UNCHANGED tick

\* a variant of the callback that destroys nothing
TimerFireIdle ==
  /\ timeouts # << >>
  /\ SetWorld([World EXCEPT !.timeouts = Tail(timeouts)])
  /\ UNCHANGED << userOps, tick, otherThanSim >>

\* the callback of setTimeout(..., 500) in unloadPassengers
TimerFire ==
  /\ timeouts # << >>
  /\ SetWorld([(IF HasEntity(World, Head(timeouts))
                THEN DestroyEntity(World, Head(timeouts)) ELSE World)
               EXCEPT !.timeouts = Tail(timeouts)])
  /\ UNCHANGED << userOps, tick, otherThanSim >>

\* ---- MapEditorService ----

NewBus(routeId, idx, passengers, x, editor) ==
  [routeId |-> routeId, idx |-> idx, state |-> "idle", capacity |-> BusCapacity,
   passengers |-> passengers, waitTimer |-> 0, x |-> x, speed |-> 0, isMoving |-> FALSE,
   speedNaN |-> FALSE, xNaN |-> FALSE,
   \* history: placed by createBusOnRoute; the index of the latest stop it stopped
   \* at (-1: none yet); every stop so far was the one due; it has arrived at the
   \* terminus of a route that does not loop, with these riders aboard
   fromEditor |-> editor, lastStop |-> -1, inOrder |-> TRUE,
   terminus |-> FALSE, aboard |-> {}]

StopIdsOf(w) == {w.stops[e].id : e \in DOMAIN w.stops}
RouteIdsOf(w) == {w.routes[e].id : e \in DOMAIN w.routes}

\* createStop(x, y): a left click on free ground in stop mode
CreateStop(s) ==
  /\ s \notin StopIdsOf(World)
  /\ \A t \in StopNames : StopX(t) < StopX(s) => t \in StopIdsOf(World)
  /\ nextEntityId < MaxEntityId
  /\ LET entityId == CreateEntity(World) IN
       IF entityId = NoEntity THEN SetWorld(World)
       ELSE SetWorld([World EXCEPT
              !.next = @ + 1,
              !.stops = Put(@, entityId, [id |-> s, x |-> StopX(s), waiting |-> 0,
                                          rate |-> NoRates]),
              !.rc = NoCache, !.sc = NoCache])
  /\ userOps < MaxUserOps
  /\ userOps' = userOps + 1
  /\ UNCHANGED tick
  /\ UNCHANGED otherThanSim

\* finishDraftRoute(): the draft holds the stops clicked, at least two
FinishDraftRoute(shape, rid) ==
  /\ \A i \in 1..Len(shape) : shape[i] \in StopIdsOf(World)
  /\ Len(shape) >= 2
  /\ rid \notin RouteIdsOf(World)
  /\ \A t \in RouteNames : RouteOrder(t) < RouteOrder(rid) => t \in RouteIdsOf(World)
  /\ nextEntityId < MaxEntityId
  /\ LET entityId == CreateEntity(World) IN
       IF entityId = NoEntity THEN SetWorld(World)
       ELSE SetWorld([World EXCEPT
              !.next = @ + 1,
              !.routes = Put(@, entityId, [id |-> rid, stopIds |-> shape, loop |-> FALSE]),
              !.rc = NoCache, !.sc = NoCache])
  /\ userOps < MaxUserOps
  /\ userOps' = userOps + 1
  /\ UNCHANGED tick
  /\ UNCHANGED otherThanSim

\* getFirstStopPosition
FirstStopPosition(w, routeId) ==
  LET r == FindRoute(w, routeId)
      at == {e \in DOMAIN w.stops : w.stops[e].id = r.stopIds[1]}
  IN IF at = {} THEN 0 ELSE w.stops[MinOf(at)].x

\* createBusOnRoute(routeId): a right click on a route
CreateBusOnRoute(rid) ==
  /\ HasRoute(World, rid)
  /\ Cardinality(DOMAIN buses) < MaxBuses
  /\ nextEntityId < MaxEntityId
  /\ LET entityId == CreateEntity(World) IN
       IF entityId = NoEntity THEN SetWorld(World)
       ELSE SetWorld([World EXCEPT
              !.next = @ + 1,
              !.buses = Put(@, entityId,
                            NewBus(rid, 0, 0, FirstStopPosition(World, rid), TRUE))])
  /\ userOps < MaxUserOps
  /\ userOps' = userOps + 1
  /\ UNCHANGED tick
  /\ UNCHANGED otherThanSim

\* ---- MapSaveService ----

\* clearAllEntities: every stop, route, bus and rider is destroyed
ClearAllEntities(w) ==
  [w EXCEPT !.stops = EmptyMap, !.routes = EmptyMap, !.buses = EmptyMap, !.npcs = EmptyMap]

RECURSIVE CreateStopsFromSave(_, _)
CreateStopsFromSave(w, saved) ==
  IF saved = << >> THEN w
  ELSE LET entityId == CreateEntity(w)
           stopData == Head(saved)
       IN CreateStopsFromSave(
            IF entityId = NoEntity THEN w
            ELSE [w EXCEPT !.next = @ + 1,
                           !.stops = Put(@, entityId,
                              [id |-> stopData.id, x |-> stopData.x, waiting |-> 0,
                               rate |-> stopData.rate])],
            Tail(saved))

RECURSIVE CreateRoutesFromSave(_, _)
CreateRoutesFromSave(w, saved) ==
  IF saved = << >> THEN w
  ELSE LET entityId == CreateEntity(w)
           routeData == Head(saved)
       IN CreateRoutesFromSave(
            IF entityId = NoEntity THEN w
            ELSE [w EXCEPT !.next = @ + 1,
                           !.routes = Put(@, entityId,
                              [id |-> routeData.id, stopIds |-> routeData.stopIds,
                               loop |-> routeData.loop])],
            Tail(saved))

RECURSIVE CreateBusesFromSave(_, _)
CreateBusesFromSave(w, saved) ==
  IF saved = << >> THEN w
  ELSE LET entityId == CreateEntity(w)
           busData == Head(saved)
       IN CreateBusesFromSave(
            IF entityId = NoEntity THEN w
            ELSE [w EXCEPT !.next = @ + 1,
                           !.buses = Put(@, entityId,
                              NewBus(busData.routeId, busData.currentStopIndex,
                                     busData.passengers, 0, FALSE))],
            Tail(saved))

\* loadMap(saveData), reached from importFromJson, loadPreset and the load button
LoadMap(saveData) ==
  /\ nextEntityId + Len(saveData.stops) + Len(saveData.routes) + Len(saveData.buses)
       <= MaxEntityId
  /\ SetWorld(CreateBusesFromSave(
                CreateRoutesFromSave(
                  CreateStopsFromSave(ClearAllEntities(World), saveData.stops),
                  saveData.routes),
                saveData.buses))
  /\ userOps < MaxUserOps
  /\ userOps' = userOps + 1
  /\ UNCHANGED tick
  /\ UNCHANGED otherThanSim

SimNext ==
  \/ LogicTick
  \/ RenderFrame
  \/ TimerFire
  \/ \E s \in StopNames : CreateStop(s)
  \/ \E shape \in RouteShapes, rid \in RouteNames : FinishDraftRoute(shape, rid)
  \/ \E rid \in RouteNames : CreateBusOnRoute(rid)
  \/ \E saveData \in SavedMaps : LoadMap(saveData)

\* save files importFromJson accepts (it asks for version, stops and routes
\* only): a route that names a stop the file does not hold, a route that goes
\* there and back, a vehicle on a route the file does not hold
ImportedRoutes == { << "s1", "s9", "s2" >>, << "s1", "s2", "s1" >> }
ImportedBuses ==
  { << [routeId |-> "r1", currentStopIndex |-> -1, passengers |-> 0] >>,
    << [routeId |-> "r9", currentStopIndex |-> -1, passengers |-> 0] >> }
ImportedMaps ==
  { [stops  |-> << [id |-> "s1", x |-> StopX("s1"), rate |-> SavedSpawnRate],
                  [id |-> "s2", x |-> StopX("s2"), rate |-> SavedSpawnRate] >>,
     routes |-> << [id |-> "r1", stopIds |-> shape, loop |-> l] >>,
     buses  |-> b] : shape \in ImportedRoutes, l \in BOOLEAN, b \in ImportedBuses }

\* the two cadences and the timers over imported save files
ImportNext ==
  \/ LogicTick
  \/ RenderFrame
  \/ TimerFire
  \/ \E saveData \in ImportedMaps : LoadMap(saveData)

\* the logic subscriber for as long as the loop runs: the store's entity
\* ceiling and the queue ceiling of the stops keep the states finite when no
\* rider ever leaves
LogicForever == UpdateSystems(StepDt) /\ tick' = ~tick

\* the saved maps whose route loops
LoopingMaps == {saveData \in SavedMaps : \A i \in 1..Len(saveData.routes) : saveData.routes[i].loop}

\* the two cadences over looping routes
LapNext ==
  \/ LogicForever
  \/ RenderFrame
  \/ \E saveData \in LoopingMaps : LoadMap(saveData)

\* the host unmounts and mounts the canvas: the cleanup initGame returned
\* (EntityManagerService.cleanup empties the store and sets nextEntityId to 0)
\* and initGame again, back to back.  The caches and the spawn timers are
\* module-level and stay, and so do the pending timeouts
Remount ==
  /\ SetWorld([ClearAllEntities(World) EXCEPT !.next = 0])
  /\ userOps < MaxUserOps
  /\ userOps' = userOps + 1
  /\ UNCHANGED tick
  /\ UNCHANGED otherThanSim

\* the simulation with map loads and remounts
RemountNext ==
  \/ LogicTick
  \/ RenderFrame
  \/ TimerFire
  \/ \E saveData \in SavedMaps : LoadMap(saveData)
  \/ Remount

(***************************************************************************)
(* Part III.  EntityManagerService as a generic store                      *)
(*                                                                         *)
(* Entities carry components of two types; two systems are registered in   *)
(* either order.  A system's update does one thing to the store through    *)
(* the public interface, or throws.                                        *)
(***************************************************************************)

\* config.maxEntities of the modelled instance
MaxStoreEntities == 2
\* createEntity is called while nextEntityId is below this
MaxStoreId == 4

\* component types, and the data a component holds
Tags == {"t1", "t2"}
\* the registered systems and System.requiredComponents of each
SystemNames == {"A", "B"}
requiredComponents(name) == IF name = "A" THEN << "t1" >> ELSE << "t1", "t2" >>
\* what System.update does in one invocation
Effects == {"none", "create", "destroy", "attach", "remove", "throw"}

\* the instance as one value
Store ==
  [next |-> emNextEntityId, entities |-> emEntities, components |-> emComponents,
   systems |-> emSystems, init |-> emIsInitialized, issued |-> issued, reused |-> reused]

SetStore(st) ==
  /\ emNextEntityId' = st.next
  /\ emEntities' = st.entities
  /\ emComponents' = st.components
  /\ emSystems' = st.systems
  /\ emIsInitialized' = st.init
  /\ issued' = st.issued
  /\ reused' = st.reused

\* field initialisers of the class
StoreInit ==
  /\ emNextEntityId = 0
  /\ emEntities = << >>
  /\ emComponents = EmptyMap
  /\ emSystems = << >>
  /\ emIsInitialized = FALSE
  /\ issued = {}
  /\ reused = FALSE
  /\ lastOp = [op |-> "new", id |-> NoEntity, ret |-> NoEntity]
  /\ runLog = << >>

\* Set.add / Map.set on an insertion-ordered collection; Set.delete
SetAdd(seq, x) == IF InSeq(seq, x) THEN seq ELSE Append(seq, x)
SetDelete(seq, x) == SelectSeq(seq, LAMBDA y : y # x)
Elements(seq) == {seq[i] : i \in 1..Len(seq)}

\* initialize()
initialize(st) ==
  IF st.init THEN st
  ELSE [st EXCEPT !.next = 0, !.entities = << >>, !.components = EmptyMap, !.init = TRUE]

\* the ceiling test of createEntity
AtCeilingOffByOne(st) == Len(st.entities) > MaxStoreEntities
AtCeiling(st) == Len(st.entities) >= MaxStoreEntities

\* createEntity(): the returned id and the store afterwards
createEntity(st) ==
  IF AtCeiling(st) THEN [ret |-> NoEntity, st |-> st]
  ELSE [ret |-> st.next,
        st |-> [st EXCEPT !.next = @ + 1,
                          !.entities = SetAdd(@, st.next),
                          !.components = Put(@, st.next, EmptyMap),
                          !.issued = @ \cup {st.next},
                          !.reused = @ \/ st.next \in st.issued]]

\* destroyEntity(entityId)
destroyEntityKeepingComponents(st, entityId) ==
  IF ~InSeq(st.entities, entityId) THEN st
  ELSE [st EXCEPT !.entities = SetDelete(@, entityId)]
destroyEntity(st, entityId) ==
  IF ~InSeq(st.entities, entityId) THEN st
  ELSE [st EXCEPT !.entities = SetDelete(@, entityId),
                  !.components = Drop(@, entityId)]

hasEntity(st, entityId) == InSeq(st.entities, entityId)

\* a variant that attaches to whatever id it is given
addComponentAnywhere(st, entityId, componentType, componentData) ==
  [st EXCEPT !.components =
     Put(@, entityId,
         Put(IF entityId \in DOMAIN @ THEN @[entityId] ELSE EmptyMap,
             componentType, componentData))]

\* addComponent(entityId, componentType, componentData)
addComponent(st, entityId, componentType, componentData) ==
  IF ~InSeq(st.entities, entityId) THEN st
  ELSE IF entityId \in DOMAIN st.components
    THEN [st EXCEPT !.components[entityId] = Put(@, componentType, componentData)]
    ELSE st

\* getComponent / hasComponent / removeComponent
getComponent(st, entityId, componentType) ==
  IF entityId \notin DOMAIN st.components THEN Null
  ELSE IF componentType \in DOMAIN st.components[entityId]
    THEN st.components[entityId][componentType]
    ELSE Null
hasComponent(st, entityId, componentType) ==
  IF entityId \notin DOMAIN st.components THEN FALSE
  ELSE componentType \in DOMAIN st.components[entityId]
removeComponent(st, entityId, componentType) ==
  IF entityId \in DOMAIN st.components
    THEN [st EXCEPT !.components[entityId] = Drop(@, componentType)]
    ELSE st

\* getEntitiesWithComponents(...componentTypes)
getEntitiesWithAnyComponent(st, componentTypes) ==
  SelectSeq(st.entities,
    LAMBDA entityId :
      /\ entityId \in DOMAIN st.components
      /\ \E i \in 1..Len(componentTypes) :
           componentTypes[i] \in DOMAIN st.components[entityId])
getEntitiesWithComponents(st, componentTypes) ==
  SelectSeq(st.entities,
    LAMBDA entityId :
      /\ entityId \in DOMAIN st.components
      /\ \A i \in 1..Len(componentTypes) :
           componentTypes[i] \in DOMAIN st.components[entityId])

\* registerSystem / unregisterSystem / clearSystems (the modelled systems have
\* no initialize and no destroy hook)
registerSystem(st, name) ==
  IF InSeq(st.systems, name) THEN st ELSE [st EXCEPT !.systems = Append(@, name)]
unregisterSystem(st, name) == [st EXCEPT !.systems = SetDelete(@, name)]
clearSystems(st) == [st EXCEPT !.systems = << >>]

\* cleanup()
cleanup(st) ==
  [st EXCEPT !.systems = << >>, !.entities = << >>, !.components = EmptyMap,
             !.next = 0, !.init = FALSE]

\* System.update of a modelled system, given the entity list handed to it:
\* the store afterwards and whether the call threw
SystemUpdate(st, entities, effect) ==
  CASE effect = "create" ->
         LET c == createEntity(st) IN
         [st |-> IF c.ret = NoEntity THEN c.st ELSE addComponent(c.st, c.ret, "t1", 1),
          threw |-> FALSE]
    [] effect = "destroy" /\ entities # << >> ->
         [st |-> destroyEntity(st, Head(entities)), threw |-> FALSE]
    [] effect = "attach" /\ entities # << >> ->
         [st |-> addComponent(st, Head(entities), "t2", 1), threw |-> FALSE]
    [] effect = "remove" /\ entities # << >> ->
         [st |-> removeComponent(st, Head(entities), "t1"), threw |-> FALSE]
    [] effect = "throw" -> [st |-> st, threw |-> TRUE]
    [] OTHER -> [st |-> st, threw |-> FALSE]

\* the entity list updateSystems hands to a system: computed from the store as
\* it is when the system is about to run (start: the store at the call)
MatchListAtStart(start, st, name) == getEntitiesWithComponents(start, requiredComponents(name))
MatchList(start, st, name) == getEntitiesWithComponents(st, requiredComponents(name))

\* the systems still to run after one system's update: the catch block only logs
RemainingAbortOnThrow(threw, rest) == IF threw THEN << >> ELSE rest
Remaining(threw, rest) == rest

\* the for loop of updateSystems over systems.values()
RECURSIVE RunSystems(_, _, _, _, _)
RunSystems(start, st, names, effects, log) ==
  IF names = << >> THEN [st |-> st, log |-> log]
  ELSE
    LET name == Head(names)
        entities == MatchList(start, st, name)
        r == SystemUpdate(st, entities, effects[name])
        entry == [name |-> name, entities |-> entities,
                  live |-> st.entities, components |-> st.components,
                  threw |-> r.threw]
    IN RunSystems(start, r.st, Remaining(r.threw, Tail(names)), effects,
                  Append(log, entry))

\* updateSystems(deltaTime)
updateSystems(st, effects) ==
  IF ~st.init THEN [st |-> st, log |-> << >>]
  ELSE RunSystems(st, st, st.systems, effects, << >>)

\* ---- the public calls as actions ----

Called(op, id, ret) ==
  /\ lastOp' = [op |-> op, id |-> id, ret |-> ret]
  /\ runLog' = << >>
  /\ UNCHANGED otherThanStore

StoreIds == 0..(MaxStoreId - 1)

EmInitialize == SetStore(initialize(Store)) /\ Called("initialize", NoEntity, NoEntity)

EmCleanup == SetStore(cleanup(Store)) /\ Called("cleanup", NoEntity, NoEntity)

EmCreateEntity ==
  /\ emNextEntityId < MaxStoreId
  /\ LET c == createEntity(Store) IN
       SetStore(c.st) /\ Called("createEntity", NoEntity, c.ret)

EmDestroyEntity(entityId) ==
  SetStore(destroyEntity(Store, entityId)) /\ Called("destroyEntity", entityId, NoEntity)

EmAddComponent(entityId, tag) ==
  SetStore(addComponent(Store, entityId, tag, 1)) /\ Called("addComponent", entityId, NoEntity)

EmRemoveComponent(entityId, tag) ==
  SetStore(removeComponent(Store, entityId, tag))
    /\ Called("removeComponent", entityId, NoEntity)

EmRegisterSystem(name) ==
  SetStore(registerSystem(Store, name)) /\ Called("registerSystem", NoEntity, NoEntity)

EmUnregisterSystem(name) ==
  SetStore(unregisterSystem(Store, name)) /\ Called("unregisterSystem", NoEntity, NoEntity)

EmUpdateSystems ==
  /\ emNextEntityId + Len(emSystems) <= MaxStoreId
  /\ \E effects \in [SystemNames -> Effects] :
       LET r == updateSystems(Store, effects) IN
       /\ SetStore(r.st)
       /\ runLog' = r.log
  /\ lastOp' = [op |-> "updateSystems", id |-> NoEntity, ret |-> NoEntity]
  /\ UNCHANGED otherThanStore

StoreNext ==
  \/ EmInitialize
  \/ EmCleanup
  \/ EmCreateEntity
  \/ \E entityId \in StoreIds : EmDestroyEntity(entityId)
  \/ \E entityId \in StoreIds, tag \in Tags : EmAddComponent(entityId, tag)
  \/ \E entityId \in StoreIds, tag \in Tags : EmRemoveComponent(entityId, tag)
  \/ \E name \in SystemNames : EmRegisterSystem(name)
  \/ \E name \in SystemNames : EmUnregisterSystem(name)
  \/ EmUpdateSystems

(***************************************************************************)
(* Part IV.  GameEventBusService                                           *)
(*                                                                         *)
(* Two event types, two callbacks.  An event is its type and the number of *)
(* the publish call that made it.  A callback, when invoked, does nothing, *)
(* throws, or subscribes or unsubscribes a callback for the event's type.  *)
(***************************************************************************)

\* config.maxHistorySize of the modelled instance
MaxHistorySize == 2
\* the number of accepted publish calls between two resets of the history
MaxPublishes == 4
\* the number of unsubscribe closures callers keep
MaxHandles == 2

\* the values of the enum GameEventType
EventTypes == {"k1", "k2"}
\* the values of the enum TimeEventType, which TimeService publishes
TimeEventTypes == {"time:changed"}
\* the event types the components of the program publish
PublishedTypes == EventTypes \cup TimeEventTypes
Callbacks == {"f", "g"}
\* what a callback does when it is invoked
Behaviours ==
  {[do |-> "none", cb |-> "f"], [do |-> "throw", cb |-> "f"]}
    \cup {[do |-> d, cb |-> c] : d \in {"subscribe", "unsubscribe"}, c \in Callbacks}

NoPublish == [event |-> [type |-> Null, seq |-> 0], atCall |-> << >>, invoked |-> << >>,
              did |-> << >>, historyAtDelivery |-> << >>, escaped |-> FALSE]

\* field initialisers of the class: no subscriber sets before initialize()
ChannelInit ==
  /\ ebSubscribers = EmptyMap
  /\ ebEventHistory = << >>
  /\ ebIsInitialized = FALSE
  /\ published = << >>
  /\ lastPublish = NoPublish
  /\ handles = << >>

\* the subscriber Set of an event type, when there is one
SubscribersOf(subs, eventType) ==
  IF eventType \in DOMAIN subs THEN subs[eventType] ELSE << >>

\* addToHistory(event)
addToHistoryDroppingNewest(history, event) ==
  IF Len(history) + 1 > MaxHistorySize THEN SubSeq(Append(history, event), 1, Len(history))
  ELSE Append(history, event)
addToHistory(history, event) ==
  LET pushed == Append(history, event) IN
  IF Len(pushed) > MaxHistorySize THEN Tail(pushed) ELSE pushed

\* the position of x in an insertion-ordered Set, 0 when absent
Position(seq, x) == IF InSeq(seq, x) THEN IndexOf(seq, x) + 1 ELSE 0

\* Set.prototype.forEach over the subscribers of the event's type: each visit
\* invokes the callback inside try/catch.  Elements deleted before they are
\* reached are not visited, elements added during the iteration are.
\* i: the number of elements of the Set the iteration has passed
\* try { callback(event) } catch (error) { console.error(...) }: whether what
\* the callback did leaves the arrow function the forEach runs
EscapesUncaught(b) == b.do = "throw"
Escapes(b) == FALSE

RECURSIVE ForEach(_, _, _, _, _, _)
ForEach(set, i, behaviour, invoked, did, fuel) ==
  IF i >= Len(set) \/ fuel = 0
    THEN [set |-> set, invoked |-> invoked, did |-> did, escaped |-> FALSE]
  ELSE
    LET callback == set[i + 1]
        b == behaviour[callback]
        p == Position(set, b.cb)
        set1 == CASE b.do = "subscribe" -> SetAdd(set, b.cb)
                  [] b.do = "unsubscribe" -> SetDelete(set, b.cb)
                  [] OTHER -> set
        i1 == IF b.do = "unsubscribe" /\ p > 0 /\ p <= i + 1 THEN i ELSE i + 1
    IN IF Escapes(b)
         THEN [set |-> set1, invoked |-> Append(invoked, callback),
               did |-> Append(did, b), escaped |-> TRUE]
         ELSE ForEach(set1, i1, behaviour, Append(invoked, callback),
                      Append(did, b), fuel - 1)

\* ---- the closures subscribe returns ----

\* a closure deletes the callback from the Set it captured.  attached: that
\* Set is the one the map holds for the type; live: the subscription the
\* closure was returned for has not been ended
\* the closure returned at lines 187 and 193: it does nothing
NoopHandle(eventType, callback) ==
  [type |-> eventType, cb |-> callback, attached |-> FALSE, live |-> FALSE]
\* the closure returned at lines 199-201
SetHandle(eventType, callback) ==
  [type |-> eventType, cb |-> callback, attached |-> TRUE, live |-> TRUE]

\* the caller keeps the closure or lets it go
Keep(hs, h, keep) == IF keep /\ Len(hs) < MaxHandles THEN Append(hs, h) ELSE hs

\* subscriptions whose callback has left its Set by a call other than a
\* closure's have ended
Settle(hs, subs) ==
  [i \in 1..Len(hs) |->
     [hs[i] EXCEPT !.live = @ /\ hs[i].attached
                              /\ InSeq(SubscribersOf(subs, hs[i].type), hs[i].cb)]]

\* subscribers.clear() in initialize() lets go of the Sets the closures captured
Detach(hs) ==
  [i \in 1..Len(hs) |-> [hs[i] EXCEPT !.attached = FALSE, !.live = FALSE]]

\* ---- the public calls as actions ----

\* initialize(): a fresh Set for every event type, an empty history
EbInitialize ==
  /\ IF ebIsInitialized
       THEN UNCHANGED << ebSubscribers, ebEventHistory, published, handles >>
       ELSE /\ ebSubscribers' = [t \in EventTypes |-> << >>]
            /\ ebEventHistory' = << >>
            /\ published' = << >>
            /\ handles' = Detach(handles)
  /\ ebIsInitialized' = TRUE
  /\ lastPublish' = NoPublish
  /\ UNCHANGED otherThanChannel

\* subscribe(eventType, callback)
EbSubscribe(eventType, callback, keep) ==
  /\ IF ebIsInitialized /\ eventType \in DOMAIN ebSubscribers
       THEN /\ ebSubscribers' = [ebSubscribers EXCEPT ![eventType] = SetAdd(@, callback)]
            /\ handles' = Keep(handles, SetHandle(eventType, callback), keep)
       ELSE /\ UNCHANGED ebSubscribers
            /\ handles' = Keep(handles, NoopHandle(eventType, callback), keep)
  /\ lastPublish' = NoPublish
  /\ UNCHANGED << ebEventHistory, ebIsInitialized, published >>
  /\ UNCHANGED otherThanChannel

\* a call of the closure subscribe returned: subscribers.delete(callback) on the
\* captured Set
EbCallHandle(i) ==
  /\ i \in 1..Len(handles)
  /\ IF handles[i].attached
       THEN ebSubscribers' =
              [ebSubscribers EXCEPT ![handles[i].type] = SetDelete(@, handles[i].cb)]
       ELSE UNCHANGED ebSubscribers
  /\ handles' = [handles EXCEPT ![i].live = FALSE]
  /\ lastPublish' = NoPublish
  /\ UNCHANGED << ebEventHistory, ebIsInitialized, published >>
  /\ UNCHANGED otherThanChannel

\* unsubscribe(eventType, callback)
EbUnsubscribe(eventType, callback) ==
  /\ IF eventType \in DOMAIN ebSubscribers
       THEN ebSubscribers' = [ebSubscribers EXCEPT ![eventType] = SetDelete(@, callback)]
       ELSE UNCHANGED ebSubscribers
  /\ handles' = Settle(handles, ebSubscribers')
  /\ lastPublish' = NoPublish
  /\ UNCHANGED << ebEventHistory, ebIsInitialized, published >>
  /\ UNCHANGED otherThanChannel

\* clearHistory()
EbClearHistory ==
  /\ ebEventHistory' = << >>
  /\ published' = << >>
  /\ lastPublish' = NoPublish
  /\ UNCHANGED << ebSubscribers, ebIsInitialized, handles >>
  /\ UNCHANGED otherThanChannel

\* cleanup(): unsubscribeAll(), clearHistory(), isInitialized = false
EbCleanup ==
  /\ ebSubscribers' = [t \in DOMAIN ebSubscribers |-> << >>]
  /\ handles' = Settle(handles, ebSubscribers')
  /\ ebEventHistory' = << >>
  /\ published' = << >>
  /\ ebIsInitialized' = FALSE
  /\ lastPublish' = NoPublish
  /\ UNCHANGED otherThanChannel

\* publish(eventType, payload)
EbPublish(eventType) ==
  /\ Len(published) < MaxPublishes
  /\ IF ~ebIsInitialized
       THEN /\ lastPublish' = NoPublish
            /\ UNCHANGED << ebSubscribers, ebEventHistory, published, handles >>
       ELSE \E behaviour \in [Callbacks -> Behaviours] :
              LET event == [type |-> eventType, seq |-> Len(published) + 1]
                  history == addToHistory(ebEventHistory, event)
                  subscribers == SubscribersOf(ebSubscribers, eventType)
                  r == ForEach(subscribers, 0, behaviour, << >>, << >>,
                               2 * Cardinality(Callbacks))
              IN
              /\ ebEventHistory' = history
              /\ published' = Append(published, event)
              /\ ebSubscribers' =
                   IF eventType \in DOMAIN ebSubscribers
                     THEN [ebSubscribers EXCEPT ![eventType] = r.set]
                     ELSE ebSubscribers
              /\ handles' = Settle(handles, ebSubscribers')
              /\ lastPublish' = [event |-> event, atCall |-> subscribers,
                                 invoked |-> r.invoked, did |-> r.did,
                                 historyAtDelivery |-> history, escaped |-> r.escaped]
  /\ UNCHANGED ebIsInitialized
  /\ UNCHANGED otherThanChannel

ChannelNext ==
  \/ EbInitialize
  \/ EbCleanup
  \/ EbClearHistory
  \/ \E eventType \in PublishedTypes, callback \in Callbacks :
       EbSubscribe(eventType, callback, FALSE)
  \/ \E eventType \in PublishedTypes, callback \in Callbacks :
       EbUnsubscribe(eventType, callback)
  \/ \E eventType \in PublishedTypes : EbPublish(eventType)

\* the callers that keep the closures and call them
HandleNext ==
  \/ EbInitialize
  \/ EbCleanup
  \/ \E eventType \in EventTypes, callback \in Callbacks :
       EbSubscribe(eventType, callback, TRUE)
  \/ \E eventType \in EventTypes, callback \in Callbacks :
       EbUnsubscribe(eventType, callback)
  \/ \E i \in 1..MaxHandles : EbCallHandle(i)

(***************************************************************************)
(* Part V.  The subscriber lists of GameLoopService                        *)
(*                                                                         *)
(* Two callbacks; an array holds at most MaxCallbacks entries.  A callback *)
(* that is invoked does nothing, throws, or unsubscribes a callback from   *)
(* the array that is being executed.                                       *)
(***************************************************************************)

MaxCallbacks == 2

\* what a subscriber of the scheduler does when it is invoked
ListBehaviours ==
  {[do |-> "none", cb |-> "f"], [do |-> "throw", cb |-> "f"]}
    \cup {[do |-> "unsubscribe", cb |-> c] : c \in Callbacks}

NoExecute == [kind |-> Null, atStart |-> << >>, invoked |-> << >>, did |-> << >>]

\* field initialisers of the class
ListInit ==
  /\ logicCallbacks = << >>
  /\ renderCallbacks = << >>
  /\ lastExecute = NoExecute

\* Array.splice(index, 1), index counted from 0
Splice(list, index) ==
  [k \in 1..(Len(list) - 1) |-> IF k <= index THEN list[k] ELSE list[k + 1]]

\* unsubscribeFromLogic / unsubscribeFromRender: indexOf, then splice
Unsubscribe(list, callback) ==
  LET index == IndexOf(list, callback) IN
  IF index # -1 THEN Splice(list, index) ELSE list

\* for (const callback of list) { try { callback(deltaTime) } catch ... }: the
\* array iterator reads list[i] for i = 0, 1, ... until i reaches the length
\* the array has at that moment
RECURSIVE ForOf(_, _, _, _, _)
ForOf(list, i, behaviour, invoked, did) ==
  IF i >= Len(list) THEN [list |-> list, invoked |-> invoked, did |-> did]
  ELSE
    LET callback == list[i + 1]
        b == behaviour[callback]
        list1 == IF b.do = "unsubscribe" THEN Unsubscribe(list, b.cb) ELSE list
    IN ForOf(list1, i + 1, behaviour, Append(invoked, callback), Append(did, b))

\* ---- the calls as actions ----

SubscribeToLogic(callback) ==
  /\ Len(logicCallbacks) < MaxCallbacks
  /\ logicCallbacks' = Append(logicCallbacks, callback)
  /\ UNCHANGED << renderCallbacks, lastExecute >>
  /\ UNCHANGED otherThanLists

SubscribeToRender(callback) ==
  /\ Len(renderCallbacks) < MaxCallbacks
  /\ renderCallbacks' = Append(renderCallbacks, callback)
  /\ UNCHANGED << logicCallbacks, lastExecute >>
  /\ UNCHANGED otherThanLists

UnsubscribeFromLogic(callback) ==
  /\ logicCallbacks' = Unsubscribe(logicCallbacks, callback)
  /\ UNCHANGED << renderCallbacks, lastExecute >>
  /\ UNCHANGED otherThanLists

UnsubscribeFromRender(callback) ==
  /\ renderCallbacks' = Unsubscribe(renderCallbacks, callback)
  /\ UNCHANGED << logicCallbacks, lastExecute >>
  /\ UNCHANGED otherThanLists

\* executeLogic(deltaTime); a callback unsubscribes from logicCallbacks
ExecuteLogic ==
  /\ \E behaviour \in [Callbacks -> ListBehaviours] :
       LET r == ForOf(logicCallbacks, 0, behaviour, << >>, << >>) IN
       /\ logicCallbacks' = r.list
       /\ lastExecute' = [kind |-> "logic", atStart |-> logicCallbacks,
                          invoked |-> r.invoked, did |-> r.did]
  /\ UNCHANGED renderCallbacks
  /\ UNCHANGED otherThanLists

\* executeRender(deltaTime); a callback unsubscribes from renderCallbacks
ExecuteRender ==
  /\ \E behaviour \in [Callbacks -> ListBehaviours] :
       LET r == ForOf(renderCallbacks, 0, behaviour, << >>, << >>) IN
       /\ renderCallbacks' = r.list
       /\ lastExecute' = [kind |-> "render", atStart |-> renderCallbacks,
                          invoked |-> r.invoked, did |-> r.did]
  /\ UNCHANGED logicCallbacks
  /\ UNCHANGED otherThanLists

ListNext ==
  \/ \E callback \in Callbacks : SubscribeToLogic(callback)
  \/ \E callback \in Callbacks : SubscribeToRender(callback)
  \/ \E callback \in Callbacks : UnsubscribeFromLogic(callback)
  \/ \E callback \in Callbacks : UnsubscribeFromRender(callback)
  \/ ExecuteLogic
  \/ ExecuteRender

\* the state after construction: a stopped scheduler and empty stores
Init ==
  /\ LoopInit
  /\ SimInit
  /\ StoreInit
  /\ ChannelInit
  /\ ListInit

\* the simulation driven by the two cadences, the editor, the map loader and the timers
Spec == Init /\ [][SimNext]_vars

\* the scheduler alone
SpecLoop == Init /\ [][LoopNext]_vars

\* the entity store driven through its public interface
SpecStore == Init /\ [][StoreNext]_vars

\* the event channel driven through its public interface
SpecChannel == Init /\ [][ChannelNext]_vars

\* the simulation with the host's timers: a pending setTimeout callback is run
SpecGrace == Init /\ [][SimNext]_vars /\ WF_vars(TimerFire)

\* the simulation of looping routes, ticked without end: the running loop
\* keeps invoking the logic subscriber.  LogicForever is always enabled and is
\* the only action that changes tick, so its weak fairness is stated on the
\* steps that change tick
SpecLap == Init /\ [][LapNext]_vars /\ WF_tick(tick' = ~tick)

\* the simulation across remounts of the canvas
SpecRemount == Init /\ [][RemountNext]_vars

\* the subscriber lists of the scheduler and their execution
SpecLists == Init /\ [][ListNext]_vars

\* the simulation over imported save files
SpecImport == Init /\ [][ImportNext]_vars

\* the subscriber Sets and the holders of the unsubscribe closures; publish
\* delivers to the members of the Set of the event's type (lines 249-251)
SpecHandles == Init /\ [][HandleNext]_vars

(***************************************************************************)
(* Part II: properties                                                     *)
(***************************************************************************)

\* C1: in every state, each vehicle's passengers counter equals the number of
\* riders whose state is ON_BUS and whose busEntityId is that vehicle.
C1_OccupancyInvariant ==
  \A b \in DOMAIN buses : buses[b].passengers = Cardinality(RidersOn(World, b))

\* C2: whenever a STOPPED vehicle with free room r = capacity - passengers
\* processes a non-terminus stop with k WAITING riders, exactly min(k, r) of them
\* board, the others stay WAITING, the passengers counter grows by min(k, r) and
\* the stop's waitingPassengers counter drops by min(k, r).
C2_BoardingUnderCapacity ==
  \A i \in 1..Len(boardLog) :
    /\ boardLog[i].boarded = Min(boardLog[i].k, boardLog[i].r)
    /\ boardLog[i].left = boardLog[i].k - Min(boardLog[i].k, boardLog[i].r)
    /\ boardLog[i].dPassengers = Min(boardLog[i].k, boardLog[i].r)
    /\ boardLog[i].dWaiting = Min(boardLog[i].k, boardLog[i].r)

\* C3: in every state every vehicle has 0 <= passengers <= capacity.
C3_PassengersWithinCapacity ==
  \A b \in DOMAIN buses :
    0 <= buses[b].passengers /\ buses[b].passengers <= buses[b].capacity

\* C4: in every state between two system invocations, every vehicle whose route
\* exists has 0 <= currentStopIndex < stopIds.length of that route.
C4_IndexBound ==
  \A b \in DOMAIN buses :
    (buses[b].routeId # Null /\ HasRoute(World, buses[b].routeId)) =>
      (0 <= buses[b].idx
         /\ buses[b].idx < Len(FindRoute(World, buses[b].routeId).stopIds))

C6_StopVisitingOrder ==
  \A b \in DOMAIN buses : buses[b].fromEditor => buses[b].inOrder

\* the fields of a vehicle's components (the rest of a bus record is history
\* kept for the properties)
BusFields(b) ==
  [routeId |-> b.routeId, idx |-> b.idx, state |-> b.state, capacity |-> b.capacity,
   passengers |-> b.passengers, waitTimer |-> b.waitTimer, x |-> b.x,
   speed |-> b.speed, speedNaN |-> b.speedNaN, xNaN |-> b.xNaN, isMoving |-> b.isMoving]

\* the component states of the store
ComponentsOf(w) ==
  [stops |-> w.stops, routes |-> w.routes,
   buses |-> [b \in DOMAIN w.buses |-> BusFields(w.buses[b])],
   npcs |-> w.npcs]

\* C11: determinism.  Two runs from the same store state that are fed the same
\* fixed-step tick end in the same component states: the tick has one outcome
\* whatever Math.random() returns, and a presentation frame run before the tick
\* does not change what the tick produces.
C11_Determinism ==
  /\ \A s1, s2 \in [Spawning(StepDt) -> Seeds] :
       ComponentsOf(UpdateSystemsFx(World, StepDt, s1))
         = ComponentsOf(UpdateSystemsFx(World, StepDt, s2))
  /\ \A s0 \in [Spawning(0) -> Seeds] :
       \A s1 \in [Spawning(StepDt) -> Seeds] :
         ComponentsOf(UpdateSystemsFx(UpdateSystemsFx(World, 0, s0), StepDt, s1))
           = ComponentsOf(UpdateSystemsFx(World, StepDt, s1))

\* C12: the presentation cadence is read-only: a render callback leaves every
\* simulation component unchanged (the simulation systems run once per logic
\* tick and never from a presentation frame).
C12_RenderReadOnly ==
  [][RenderFrame => ComponentsOf(World)' = ComponentsOf(World)]_vars

(***************************************************************************)
(* Part III: properties                                                    *)
(***************************************************************************)

\* the live entities that held every required component type of a system at
\* the moment the system was invoked
MatchingThen(entry) ==
  {e \in Elements(entry.live) :
     /\ e \in DOMAIN entry.components
     /\ \A t \in Elements(requiredComponents(entry.name)) :
          t \in DOMAIN entry.components[e]}

\* the latest call was updateSystems on an initialized store
RanSystems == lastOp.op = "updateSystems" /\ emIsInitialized

\* C13: updateSystems invokes the registered systems in registration order, and
\* the entity list handed to each system is exactly the set of entities that
\* hold all its required component types when that system is about to run, so
\* it reflects what the systems before it did in the same call.
C13_FreshMatchLists ==
  RanSystems =>
    /\ [i \in 1..Len(runLog) |-> runLog[i].name] = emSystems
    /\ \A i \in 1..Len(runLog) :
         /\ Elements(runLog[i].entities) = MatchingThen(runLog[i])
         /\ Len(runLog[i].entities) = Cardinality(MatchingThen(runLog[i]))

\* a second system was handed a list that differs from the one the store would
\* have given it when updateSystems was called
C13_Witness ==
  /\ RanSystems
  /\ Len(runLog) = 2
  /\ Elements(runLog[2].entities)
       # MatchingThen([runLog[1] EXCEPT !.name = runLog[2].name])

\* C14: when a system's update throws, every system registered after it is
\* still invoked in the same call, each with a freshly computed entity list,
\* and updateSystems returns.
C14_FaultIsolation ==
  RanSystems =>
    \A i \in 1..Len(runLog) :
      runLog[i].threw =>
        \A j \in (i + 1)..Len(emSystems) :
          /\ j <= Len(runLog)
          /\ runLog[j].name = emSystems[j]
          /\ Elements(runLog[j].entities) = MatchingThen(runLog[j])

\* the first of two systems threw and the second one ran on a non-empty list
C14_Witness ==
  /\ RanSystems
  /\ Len(emSystems) = 2
  /\ Len(runLog) = 2
  /\ runLog[1].threw
  /\ runLog[2].entities # << >>

\* C15: no id returned by createEntity (other than -1) is returned a second
\* time by the same instance, over createEntity, destroyEntity, initialize and
\* cleanup calls.
C15_IdsNeverReused == ~reused

\* the fields of the instance other than the history kept for the properties
StoreFields == << emNextEntityId, emEntities, emComponents, emSystems, emIsInitialized >>

\* C16: at the ceiling createEntity returns -1 and changes nothing; below it,
\* it returns a new live entity without components and changes nothing else;
\* the number of live entities never exceeds maxEntities.
C16_EntityCeiling ==
  /\ [](Len(emEntities) <= MaxStoreEntities)
  /\ [][ lastOp'.op = "createEntity" =>
           IF Len(emEntities) = MaxStoreEntities
             THEN lastOp'.ret = NoEntity /\ UNCHANGED StoreFields
             ELSE /\ lastOp'.ret # NoEntity
                  /\ lastOp'.ret \notin Elements(emEntities)
                  /\ Elements(emEntities') = Elements(emEntities) \cup {lastOp'.ret}
                  /\ emComponents'[lastOp'.ret] = EmptyMap
                  /\ \A e \in Elements(emEntities) : emComponents'[e] = emComponents[e]
                  /\ UNCHANGED << emSystems, emIsInitialized >> ]_vars

\* createEntity returned -1 at the ceiling, after a destroyEntity had made
\* room for one more entity than the ceiling
C16_Witness ==
  /\ lastOp.op = "createEntity"
  /\ lastOp.ret = NoEntity
  /\ Len(emEntities) = MaxStoreEntities
  /\ emNextEntityId > MaxStoreEntities

\* C17: destroyEntity(id) on a live entity removes it and all its components
\* (hasEntity, hasComponent, getComponent and every query report it absent)
\* and leaves every other entity and its components unchanged; on an absent
\* id it changes nothing.
C17_DestroyEntity ==
  [][ lastOp'.op = "destroyEntity" =>
        LET id == lastOp'.id IN
        IF id \in Elements(emEntities)
          THEN /\ ~hasEntity(Store', id)
               /\ \A t \in Tags : ~hasComponent(Store', id, t) /\ getComponent(Store', id, t) = Null
               /\ \A t \in Tags : id \notin Elements(getEntitiesWithComponents(Store', << t >>))
               /\ id \notin Elements(getEntitiesWithComponents(Store', << >>))
               /\ Elements(emEntities') = Elements(emEntities) \ {id}
               /\ \A e \in Elements(emEntities') : emComponents'[e] = emComponents[e]
               /\ UNCHANGED << emNextEntityId, emSystems, emIsInitialized >>
          ELSE UNCHANGED StoreFields ]_vars

\* an entity that was created has been destroyed while another entity with a
\* component stays
C17_Witness ==
  /\ lastOp.op = "destroyEntity"
  /\ lastOp.id \in issued
  /\ lastOp.id \notin Elements(emEntities)
  /\ \E e \in Elements(emEntities) : emComponents[e] # EmptyMap

\* the component type lists a query is called with
TagLists == {<< >>} \cup {<< t >> : t \in Tags} \cup {<< t, u >> : t \in Tags, u \in Tags}

\* C18: getEntitiesWithComponents(t1..tn) returns exactly the live entities
\* that hold a component of every listed type (all live entities for no
\* type), each once, in the iteration order of the store.
C18_Query ==
  \A types \in TagLists :
    LET result == getEntitiesWithComponents(Store, types) IN
    /\ Elements(result)
         = {e \in Elements(emEntities) :
              \A t \in Elements(types) : hasComponent(Store, e, t)}
    /\ Len(result) = Cardinality(Elements(result))
    /\ result = SelectSeq(emEntities, LAMBDA e : e \in Elements(result))

\* a query for both types returns some, but not all, of the live entities
C18_Witness ==
  LET result == getEntitiesWithComponents(Store, << "t1", "t2" >>) IN
  /\ result # << >>
  /\ Len(result) < Len(emEntities)

(***************************************************************************)
(* Part IV: properties                                                     *)
(***************************************************************************)

\* the latest call was a publish the channel accepted
Delivered == lastPublish.event.type # Null

\* C19: publish on an initialized channel invokes, before it returns, every
\* callback that was subscribed to the event's type when publish was called,
\* exactly once and in subscription order (callbacks of the other type are not
\* in the Set that is iterated).
C19_Delivery ==
  Delivered =>
    SelectSeq(lastPublish.invoked, LAMBDA c : InSeq(lastPublish.atCall, c))
      = lastPublish.atCall

\* C20: the history holds at most maxHistorySize events, namely the most recent
\* min(n, maxHistorySize) of the n events published since it was last emptied,
\* in publish order, and an event is in the history when its delivery begins.
C20_BoundedHistory ==
  /\ Len(ebEventHistory) <= MaxHistorySize
  /\ ebEventHistory
       = SubSeq(published,
                Len(published) - Min(Len(published), MaxHistorySize) + 1,
                Len(published))
  /\ Delivered =>
       /\ lastPublish.historyAtDelivery # << >>
       /\ lastPublish.historyAtDelivery[Len(lastPublish.historyAtDelivery)]
            = lastPublish.event

\* more events than the history holds were published, and the latest one was
\* delivered to a subscriber
C20_Witness ==
  /\ Delivered
  /\ Len(published) > MaxHistorySize
  /\ Len(ebEventHistory) = MaxHistorySize
  /\ lastPublish.invoked # << >>

(***************************************************************************)
(* Part IV: properties (continued)                                         *)
(***************************************************************************)

\* the callbacks that threw during the latest delivery
Throwers ==
  {lastPublish.invoked[i] : i \in {j \in 1..Len(lastPublish.invoked) :
                                      lastPublish.did[j].do = "throw"}}
\* the callbacks a callback of the latest delivery unsubscribed
UnsubscribedInDelivery ==
  {lastPublish.did[i].cb : i \in {j \in 1..Len(lastPublish.did) :
                                    lastPublish.did[j].do = "unsubscribe"}}

\* C21: when a subscriber callback throws during publish, no exception leaves
\* publish, every callback subscribed to the event's type at the call that no
\* callback of this delivery unsubscribed is invoked for the event, and every
\* callback that threw is still subscribed afterwards unless a callback of this
\* delivery unsubscribed it.
C21_SubscriberFaultIsolation ==
  (Delivered /\ Throwers # {}) =>
    /\ ~lastPublish.escaped
    /\ \A c \in Callbacks \ UnsubscribedInDelivery :
         InSeq(lastPublish.atCall, c) => InSeq(lastPublish.invoked, c)
    /\ \A c \in Throwers \ UnsubscribedInDelivery :
         InSeq(SubscribersOf(ebSubscribers, lastPublish.event.type), c)

\* the first callback threw and its sibling was invoked after it
C21_Witness ==
  /\ Delivered
  /\ Len(lastPublish.invoked) = 2
  /\ lastPublish.did[1].do = "throw"
  /\ lastPublish.invoked[1] # lastPublish.invoked[2]
  /\ InSeq(SubscribersOf(ebSubscribers, lastPublish.event.type), lastPublish.invoked[1])

\* the Set the channel holds for the type of closure h
SetOf(subs, h) == SubscribersOf(subs, h.type)

\* C22: a call of the unsubscribe closure of one subscription ends that
\* subscription only: the callback of every other subscription that has not
\* been ended stays in the Set of its kind (a different callback, another kind,
\* or a second subscription of the same callback to the same kind), the
\* callback of the closure's own subscription leaves the Set unless another
\* subscription of it to that kind is left, and a call of a closure whose
\* subscription has already ended changes no Set.
C22_OwnHandle ==
  [][\A i \in 1..Len(handles) :
       EbCallHandle(i) =>
         /\ \A j \in 1..Len(handles) \ {i} :
              handles[j].live => InSeq(SetOf(ebSubscribers', handles[j]), handles[j].cb)
         /\ (handles[i].live
               /\ ~\E j \in 1..Len(handles) \ {i} :
                     /\ handles[j].live
                     /\ handles[j].type = handles[i].type
                     /\ handles[j].cb = handles[i].cb)
              => ~InSeq(SetOf(ebSubscribers', handles[i]), handles[i].cb)
         /\ ~handles[i].live => ebSubscribers' = ebSubscribers]_vars

\* C23: every event an initialized channel accepts is of a kind of the fixed
\* set the channel was initialized with, and a subscribe call on an initialized
\* channel for a kind that a component publishes puts the callback in the Set
\* of that kind, so that publish delivers to it.
C23_KnownKinds ==
  /\ [](Delivered => lastPublish.event.type \in EventTypes)
  /\ [][\A t \in PublishedTypes, c \in Callbacks :
          (ebIsInitialized /\ EbSubscribe(t, c, FALSE))
            => InSeq(SubscribersOf(ebSubscribers', t), c)]_vars

(***************************************************************************)
(* Part II: properties (continued)                                         *)
(***************************************************************************)

\* the order of the rider states
Rank(state) == CASE state = "waiting" -> 0 [] state = "on_bus" -> 1 [] OTHER -> 2

\* C24: in every state each rider's state is WAITING, ON_BUS or ARRIVED and its
\* busEntityId is non-null exactly when its state is ON_BUS; from one state to
\* the next a rider stays where it is or moves one step along
\* WAITING -> ON_BUS -> ARRIVED, never backwards.
C24_RiderInvariant ==
  /\ [](\A n \in DOMAIN npcs :
          /\ npcs[n].state \in {"waiting", "on_bus", "arrived"}
          /\ (npcs[n].bus # NoEntity) <=> (npcs[n].state = "on_bus"))
  /\ [][\A n \in (DOMAIN npcs) \cap (DOMAIN npcs') :
          /\ Rank(npcs'[n].state) >= Rank(npcs[n].state)
          /\ Rank(npcs'[n].state) <= Rank(npcs[n].state) + 1]_vars

\* a rider has been set down at the terminus while another waits at a stop
C24_Witness ==
  /\ \E n \in DOMAIN npcs : npcs[n].state = "arrived" /\ npcs[n].bus = NoEntity
  /\ \E n \in DOMAIN npcs : npcs[n].state = "waiting" /\ npcs[n].bus = NoEntity

\* C25: after every tick each stop's waitingPassengers counter is >= 0 and equals
\* the number of riders in the store that are WAITING with that stop as
\* currentStopId, also when a rider could not be created at the entity ceiling.
C25_QueueCounter ==
  \A e \in DOMAIN stops :
    /\ stops[e].waiting >= 0
    /\ stops[e].waiting = Cardinality(WaitingAt(World, stops[e].id))

\* C26: a vehicle that is MOVING_TO_STOP has a speed that is a number with
\* 0 <= speed <= maxSpeed, and a position that is a number: the braking formula
\* never takes the root of a negative number.
C26_SpeedIsANumber ==
  \A b \in DOMAIN buses :
    buses[b].state = "moving_to_stop" =>
      /\ ~buses[b].speedNaN
      /\ ~buses[b].xNaN
      /\ 0 <= buses[b].speed
      /\ buses[b].speed <= BusMaxSpeed

\* a vehicle on its way has braked: its speed is the root the formula gave,
\* below what the acceleration steps alone produce
C26_Witness ==
  \E b \in DOMAIN buses :
    /\ buses[b].state = "moving_to_stop"
    /\ buses[b].speed > 0
    /\ buses[b].speed % (BusAcceleration * StepDt) # 0

\* the elapsed time the step hands to the systems
StepOf(logic) == IF logic THEN StepDt ELSE 0

\* C27: over a call of the systems a vehicle that is STOPPED has its waitTimer
\* lowered by the elapsed time and stays STOPPED with its index while the timer
\* is still > 0; in the call in which the timer becomes <= 0, on a looping
\* route the index after the last is 0, on a non-looping route a vehicle at the
\* last index becomes IDLE and keeps the last index, and otherwise the index
\* grows by 1; in the cases with a next index the vehicle enters MOVING_TO_STOP.
C27_StoppedTransition ==
  [][(LogicTick \/ RenderFrame) =>
       \A b \in DOMAIN buses :
         buses[b].state = "stopped" =>
           LET bus == buses[b]
               after == buses'[b]
               timer == bus.waitTimer - StepOf(tick' # tick)
           IN
           IF timer > 0
             THEN after.state = "stopped" /\ after.waitTimer = timer /\ after.idx = bus.idx
             ELSE HasRoute(World, bus.routeId) =>
                    LET r == FindRoute(World, bus.routeId)
                        last == Len(r.stopIds) - 1
                    IN
                    /\ (r.loop /\ bus.idx = last) =>
                         after.idx = 0 /\ after.state = "moving_to_stop"
                    /\ (~r.loop /\ bus.idx = last) =>
                         after.idx = last /\ after.state = "idle"
                    /\ bus.idx < last =>
                         after.idx = bus.idx + 1 /\ after.state = "moving_to_stop"]_vars

\* a vehicle has left a stop after its dwell and is on its way to the next index
C27_Witness ==
  /\ \E b \in DOMAIN buses :
       /\ buses[b].state = "moving_to_stop"
       /\ buses[b].lastStop >= 0
       /\ buses[b].idx = buses[b].lastStop + 1

\* the target of the vehicle cannot be resolved: getTargetStopPosition finds no
\* position for its route id and stop index
Unresolved(w, bus) == ~GetTargetStopPosition(w, bus.routeId, bus.idx).found

\* C28: when the target of a MOVING_TO_STOP vehicle cannot be resolved, the call
\* of the systems leaves the vehicle IDLE with zero speed, and the vehicle rests
\* there: it has not re-entered MOVING_TO_STOP and its stop index is the one it
\* had.
C28_BrokenRouteRecovery ==
  [][(LogicTick \/ RenderFrame) =>
       \A b \in DOMAIN buses :
         (buses[b].state = "moving_to_stop" /\ Unresolved(World, buses[b])) =>
           /\ buses'[b].state = "idle"
           /\ buses'[b].speed = 0
           /\ buses'[b].idx = buses[b].idx]_vars

\* target is listed after an occurrence of origin on some route
LaterOnSomeRoute(w, origin, target) ==
  \E e \in DOMAIN w.routes :
    \E i, j \in 1..Len(w.routes[e].stopIds) :
      i < j /\ w.routes[e].stopIds[i] = origin /\ w.routes[e].stopIds[j] = target

\* C30: the destination of a rider that waits at its origin stop is a stop
\* listed later than the origin on some route through the origin, or else
\* another stop of the map, and it is never the origin stop itself, also on a
\* route that lists a stop more than once.
C30_Destination ==
  \A n \in DOMAIN npcs :
    npcs[n].state = "waiting" =>
      /\ npcs[n].target # npcs[n].cur
      /\ \/ LaterOnSomeRoute(World, npcs[n].cur, npcs[n].target)
         \/ npcs[n].target \in StopIdsOf(World) \ {npcs[n].cur}

\* spawnTimers.get(stopId) || 0
TimerOf(w, stopId) == IF stopId \in DOMAIN w.spawnTimers THEN w.spawnTimers[stopId] ELSE 0

\* the steps updateSystems can be called with in the current state
StepsNow == {0} \cup (IF TickBudget THEN {StepDt} ELSE {})

\* C29: in a call of the spawn process every stop's own timer takes up the step;
\* when it reaches the stop's interval it is reset to 0, and a rider is created
\* in that call if and only if the timer is due and the stop's queue counter is
\* below the ceiling; the new rider is the only one, it is WAITING at that stop,
\* and the counter has grown by exactly 1.
C29_SpawnRule ==
  (\A e \in DOMAIN stops : stops[e].rate # NoRates) =>
    \A dt \in StepsNow :
      LET after == SpawnerSystem(World, SortedSeq(DOMAIN stops), dt,
                                 [e \in DOMAIN stops |-> 0])
      IN \A e \in DOMAIN stops :
           LET id == stops[e].id
               spawnInterval == IF stops[e].rate = 0 THEN DefaultSpawnInterval
                                ELSE stops[e].rate
               timer == TimerOf(World, id) + dt
               created == {n \in DOMAIN after.npcs \ DOMAIN npcs : after.npcs[n].cur = id}
           IN /\ TimerOf(after, id) = (IF timer >= spawnInterval THEN 0 ELSE timer)
              /\ (created # {}) <=>
                   (timer >= spawnInterval /\ stops[e].waiting < MaxPassengersPerStop)
              /\ created # {} =>
                   /\ Cardinality(created) = 1
                   /\ \A n \in created : after.npcs[n].state = "waiting"
                   /\ after.stops[e].waiting = stops[e].waiting + 1

\* the riders that are ON_BUS on vehicle b
Aboard(ns, b) == {n \in DOMAIN ns : ns[n].state = "on_bus" /\ ns[n].bus = b}

\* C31: over a call of the systems in which a vehicle is STOPPED at a stop S it
\* can resolve, the riders aboard that become ARRIVED are exactly those whose
\* destination is S (all riders aboard when S is the final stop of a route
\* that does not loop); they lose their back-reference, and the vehicle's
\* passengers counter goes down by one per alighted rider (and up by one per
\* rider that boards in the same call).
C31_Alighting ==
  [][(LogicTick \/ RenderFrame) =>
       \A b \in DOMAIN buses :
         (/\ buses'[b].state = "stopped"
          /\ GetCurrentStopId(World', buses'[b]) # Null) =>
           LET stopId == GetCurrentStopId(World', buses'[b])
               isFinalStop == IsFinalStopForRoute(World', buses'[b])
               due == {n \in Aboard(npcs, b) : isFinalStop \/ npcs[n].target = stopId}
               alighted == {n \in Aboard(npcs, b) : npcs'[n].state = "arrived"}
               boarded == Aboard(npcs', b) \ Aboard(npcs, b)
           IN /\ alighted = due
              /\ \A n \in alighted : npcs'[n].bus = NoEntity
              /\ buses'[b].passengers =
                   buses[b].passengers - Cardinality(alighted) + Cardinality(boarded)]_vars

\* vehicle b is STOPPED at the last index of a route that does not loop
AtTerminus(w, b) ==
  /\ w.buses[b].state = "stopped"
  /\ GetCurrentStopId(w, w.buses[b]) # Null
  /\ IsFinalStopForRoute(w, w.buses[b])

\* C32: over a call of the systems in which a vehicle is STOPPED at the last
\* index of a route that does not loop, no rider changes from WAITING to ON_BUS
\* on that vehicle, and the queue counter of the stop goes down only by the
\* riders that board other vehicles there.
C32_NoBoardingAtTerminus ==
  [][(LogicTick \/ RenderFrame) =>
       \A b \in DOMAIN buses :
         AtTerminus(World', b) =>
           LET stopId == GetCurrentStopId(World', buses'[b])
               others == UNION {Aboard(npcs', o) \ Aboard(npcs, o) : o \in DOMAIN buses \ {b}}
           IN /\ Aboard(npcs', b) \ Aboard(npcs, b) = {}
              /\ StopWaiting(World', stopId) >=
                   StopWaiting(World, stopId)
                     - Cardinality({n \in others : npcs'[n].cur = stopId})]_vars

\* a vehicle dwells at its terminus with room aboard while a rider waits there
C32_Witness ==
  \E b \in DOMAIN buses :
    /\ AtTerminus(World, b)
    /\ buses[b].passengers < buses[b].capacity
    /\ WaitingAt(World, GetCurrentStopId(World, buses[b])) # {}

\* the entity ids a behaviour can use
RiderIds == 0..MaxEntityId

\* C33: a rider that is ARRIVED is eventually no longer in the store; until then
\* no step changes it (it is not boarded, alighted or counted again: it stays
\* ARRIVED, off every vehicle, at the same stop); and the delayed destroy of a
\* rider that is already gone changes nothing but the list of pending timers.
C33_ArrivedIsRemoved ==
  /\ \A n \in RiderIds :
       [](((n \in DOMAIN npcs) /\ npcs[n].state = "arrived") => <>(n \notin DOMAIN npcs))
  /\ [][\A n \in DOMAIN npcs :
          npcs[n].state = "arrived" => (n \notin DOMAIN npcs' \/ npcs'[n] = npcs[n])]_vars
  /\ [][(TimerFire /\ ~HasEntity(World, Head(timeouts))) =>
          UNCHANGED << stops, routes, buses, npcs, nextEntityId, spawnTimers >>]_vars

\* a rider has alighted and its delayed destroy is pending
C33_Witness ==
  \E n \in DOMAIN npcs : npcs[n].state = "arrived" /\ InSeq(timeouts, n)

\* the position getTargetStopPosition finds, as (found, x)
Resolved(w, routeId, stopIndex) ==
  LET r == GetTargetStopPosition(w, routeId, stopIndex) IN << r.found, r.x >>

\* C34: in every state, for every vehicle, the resolution of its (routeId,
\* stopIndex) through the caches as they stand equals the resolution by a fresh
\* scan of the store.
C34_CacheNeutral ==
  \A b \in DOMAIN buses :
    Resolved(World, buses[b].routeId, buses[b].idx)
      = Resolved([World EXCEPT !.rc = NoCache, !.sc = NoCache], buses[b].routeId, buses[b].idx)

\* C35: addComponent on an id that is not a live entity (never created, or
\* destroyed) leaves the store as it was, and in every state getComponent and
\* hasComponent answer null and false for every id that is not a live entity.
C35_AbsentEntity ==
  /\ [](\A entityId \in StoreIds, tag \in Tags :
          ~hasEntity(Store, entityId) =>
            /\ ~hasComponent(Store, entityId, tag)
            /\ getComponent(Store, entityId, tag) = Null)
  /\ [][\A entityId \in StoreIds, tag \in Tags :
          (EmAddComponent(entityId, tag) /\ ~hasEntity(Store, entityId)) =>
            UNCHANGED << emNextEntityId, emEntities, emComponents, emSystems,
                         emIsInitialized >>]_vars

\* addComponent has just been called on an entity that was destroyed
C35_Witness ==
  /\ lastOp.op = "addComponent"
  /\ lastOp.id \in issued
  /\ ~hasEntity(Store, lastOp.id)

\* C36: when the logic cadence keeps ticking, every rider that is ON_BUS is
\* eventually ARRIVED (or gone from the store with its map): no rider stays
\* ON_BUS forever, on a looping route as on any other.
C36_RidersArrive ==
  \A n \in RiderIds :
    [](((n \in DOMAIN npcs) /\ npcs[n].state = "on_bus")
         => <>((n \notin DOMAIN npcs) \/ npcs[n].state = "arrived"))

\* C37: the callback of a delayed destroy removes nothing but a rider that has
\* alighted: when it finds an entity under the id it was scheduled for, that
\* entity is an ARRIVED rider, whatever map loads, remounts and entity
\* creations have happened since it was scheduled.
C37_DestroysOnlyItsRider ==
  [][TimerFire =>
       (HasEntity(World, Head(timeouts)) =>
          /\ Head(timeouts) \in DOMAIN npcs
          /\ npcs[Head(timeouts)].state = "arrived")]_vars

\* C38: the logic and the render callbacks are invoked only while the loop is
\* running, so none is invoked between a stop() and the next start(), also
\* when stop() is called from a callback in a frame that has catch-up ticks
\* and the render call still to come; and at most one frame request is pending
\* at any time.
C38_QuietAfterStop ==
  /\ [](Cardinality(rafPending) <= 1)
  /\ [][(LogicStep \/ RenderStep) => isRunning]_vars

\* how many times the delivery of the last publish invoked callback c
Invocations(p, c) == Cardinality({i \in 1..Len(p.invoked) : p.invoked[i] = c})

\* C39: changes of the subscriber set made during a publish do not touch the
\* event in flight: a callback that was not subscribed when publish was called
\* is not invoked for the event, and a callback that was subscribed then is
\* invoked exactly once, or not at all if a subscriber invoked before its turn
\* unsubscribed it.
C39_DeliveryIsASnapshot ==
  LET p == lastPublish IN
  p.event.type # Null =>
    \A c \in Callbacks :
      IF ~InSeq(p.atCall, c) THEN Invocations(p, c) = 0
      ELSE \/ Invocations(p, c) = 1
           \/ /\ Invocations(p, c) = 0
              /\ \E j \in 1..Len(p.did) : p.did[j] = [do |-> "unsubscribe", cb |-> c]

\* how often x occurs in seq
Occurrences(seq, x) == Cardinality({i \in 1..Len(seq) : seq[i] = x})

\* C40: in an execution of the logic callbacks (and likewise of the render
\* callbacks) every callback that is in the array when the execution begins and
\* that no callback unsubscribes during it is invoked once for each of its
\* subscriptions, also when callbacks unsubscribe themselves or others, or
\* throw, during the execution.
C40_EveryCallbackOnce ==
  lastExecute.kind # Null =>
    \A c \in Callbacks :
      (/\ InSeq(lastExecute.atStart, c)
       /\ \A j \in 1..Len(lastExecute.did) :
            lastExecute.did[j] # [do |-> "unsubscribe", cb |-> c]) =>
        Occurrences(lastExecute.invoked, c) = Occurrences(lastExecute.atStart, c)

====
